---- MODULE Spec2Model ----
(***************************************************************************)
(* PODx attestation and settlement core: the three contracts               *)
(* (EscrowPYUSD, OrderRegistry, ShipmentRegistry), the relational store    *)
(* (Order, Shipment, SigningSession, MagicLink, Proof, Payment, Product)   *)
(* and the HTTP handlers that move them.  A handler that awaits a chain    *)
(* call or a database transaction is split at those awaits, so requests    *)
(* interleave exactly where the code suspends.                             *)
(***************************************************************************)
EXTENDS Integers, FiniteSets, Sequences, TLC

\* ---------------------------------------------------------------- bounds
MaxShip == 1        \* shipment ids are 1..MaxShip
MaxStatusReq == 2   \* concurrent requests to the order status route
MaxAssignReq == 2   \* concurrent requests to the courier assignment route
MaxFlowFunds == 2   \* fund transactions the buyer's funding flow may send
MaxSess == 2        \* signing sessions ever created
MaxReq == 2         \* requests in flight at the same time
MaxEvents == 2      \* cap on events emitted per shipment and kind
MaxDirect == 1      \* cap on unattested courier drops per shipment
MaxFunded == 30     \* cap on tokens paid into the escrow
MaxFundedTwice == 60 \* the cap where the order is funded more than once
MaxDistance == 3    \* largest distanceMeters of a directly submitted drop approval
MaxClock == 9       \* the clock stops ticking here
TicksPerSecond == 2 \* clock ticks in a second
SessionTtl == 5     \* PICKUP_SIGNATURE_TTL_MINUTES, in ticks

\* ------------------------------------------------------- program constants
REWARD_PER_METER == 10
DistanceTolerance == 5      \* metres a claimed distance may differ from the planned one
ChainOrderId == 1           \* the chainOrderId of the one order
OrderAmount == 30           \* the amount the order is created with on-chain
PlannedDistance == 2        \* round(haversine(pickup, drop)) of a shipment
ItemQty == 1                \* qty of the order's single line item
DEFAULT_RADIUS_METERS == 2   \* the geofence radius used when the request names none

Ships == 1..MaxShip
SessIds == 1..MaxSess
Reqs == 1..MaxReq
Addr == {"buyer", "supplier", "courier", "other"}
Kinds == {"pickup", "drop"}

VARIABLES
  oracle,     \* OrderRegistry.deliveryOracle
  chOrder,    \* OrderRegistry.orders[ChainOrderId]
  escrowed,   \* EscrowPYUSD.escrowed[ChainOrderId]
  paid,       \* tokens the escrow has transferred out, per payee
  paidVia,    \* the OrderRegistry entry points that have released escrow
  reg,        \* ShipmentRegistry.shipments
  nPickup,    \* PickupApproved events emitted, per shipment
  nDrop,      \* DropApproved events emitted, per shipment
  dropEvent,  \* distanceMeters and courierReward of the last DropApproved event
  dbOrder,    \* Order row: status ("None" when the row does not exist)
  payment,    \* Payment row of (order, buyer, supplier): status
  dbShip,     \* Shipment rows
  proofs,     \* Proof rows, counted per shipment and kind
  stock,      \* Product.targetStock of (buyer, sku)
  sessions,   \* SigningSession rows with their MagicLink
  req,        \* completeSession requests in flight
  settled,    \* per session, the request whose milestone transaction committed last:
              \* "no" (none), "first" or "retry" (one begun after a chain failure)
  chainFailed, \* per session, whether a completion attempt failed at its chain call
  replayed,   \* per session, the status last answered to a call made after it completed
  now,        \* Date.now(), in ticks
  late,       \* per session, the status answered to the last call made after its deadline
  payRows,    \* number of Payment rows of (order, buyer, supplier)
  statusReq,  \* requests in flight in the order status route
  verifyCall, \* a call of verifyTypedSignature: its inputs and its answer
  orderRegistry, \* EscrowPYUSD.orderRegistry
  escrowCaller, \* msg.sender of the last escrow call that moved tokens out
  allowance,  \* token allowance of the buyer towards the escrow
  fundFlow,   \* the buyer's run of fundOrderEscrow: position and what it read
  resolved,   \* per session, the typed data last returned by resolveSession
  assignReq,  \* requests in flight in the courier assignment route
  tokenCall,  \* the last call that presented a token of another session or role
  chainErr,   \* the last request that ended on a failed registry transaction
  geofence,   \* the last createSession refused for the courier's distance
  funded      \* total paid into the escrow for the order

chainVars == <<oracle, chOrder, escrowed, paid, paidVia, reg, nPickup, nDrop, dropEvent>>
dbVars == <<dbOrder, payment, dbShip, proofs, stock, sessions>>
reqVars == <<assignReq, tokenCall, chainErr, funded, geofence>>
flowVars == <<statusReq, verifyCall, orderRegistry, escrowCaller, allowance, fundFlow, resolved, reqVars>>
vars == <<oracle, chOrder, escrowed, paid, paidVia, reg, nPickup, nDrop, dropEvent,
          dbOrder, payment, dbShip, proofs, stock, sessions, req, settled, chainFailed, replayed, now, late, payRows, flowVars>>

\* ================================================================ contracts

NoReg == [orderId |-> 0, courier |-> "none", pickupSigned |-> FALSE, delivered |-> FALSE]

\* a payout that would skip the balance requirement
EscrowCanPayAnyBalance(amount) == amount > 0

\* EscrowPYUSD.release / refund: the requires that guard the transfer
EscrowCanPay(amount) == amount > 0 /\ escrowed >= amount

\* ShipmentRegistry._calculateReward
\* a reward that would not depend on the distance
CalculateRewardFlat(distanceMeters) == REWARD_PER_METER

CalculateReward(distanceMeters) ==
  IF distanceMeters = 0 THEN 0 ELSE distanceMeters * REWARD_PER_METER

\* ShipmentRegistry._isValidSignature for an EOA: the recovered signer is the
\* expected one.  A signature is modelled by the address that produced it
\* over the approval's digest.
IsValidSignature(signer, sig) == signer # "none" /\ sig = signer

\* confirmPickup without its PickupAlreadyConfirmed check
ConfirmPickupOkNoRepeatCheck(s, oid, courierSig, supplierSig) ==
  /\ reg[s].orderId # 0
  /\ reg[s].orderId = oid
  /\ ~reg[s].delivered
  /\ IsValidSignature(reg[s].courier, courierSig)
  /\ IsValidSignature("supplier", supplierSig)

\* ShipmentRegistry.confirmPickup: the conditions under which it does not revert
ConfirmPickupOk(s, oid, courierSig, supplierSig) ==
  /\ reg[s].orderId # 0
  /\ reg[s].orderId = oid
  /\ ~reg[s].delivered
  /\ ~reg[s].pickupSigned
  /\ IsValidSignature(reg[s].courier, courierSig)
  /\ IsValidSignature("supplier", supplierSig)

\* OrderRegistry.releaseEscrowFromShipment: the conditions under which it and
\* the escrow releases it makes do not revert
ReleaseFromShipmentOk(reward) ==
  /\ chOrder.status = "Funded"
  /\ (reward > 0 => chOrder.amount >= reward /\ EscrowCanPay(reward))
  /\ LET rest == IF reward > 0 THEN chOrder.amount - reward ELSE chOrder.amount
         left == IF reward > 0 THEN escrowed - reward ELSE escrowed
     IN rest > 0 => left >= rest

\* confirmDrop without its PickupIncomplete check
ConfirmDropOkNoPickupCheck(s, oid, distanceMeters, courierSig, buyerSig) ==
  /\ reg[s].orderId # 0
  /\ reg[s].orderId = oid
  /\ ~reg[s].delivered
  /\ IsValidSignature(reg[s].courier, courierSig)
  /\ IsValidSignature("buyer", buyerSig)
  /\ ReleaseFromShipmentOk(CalculateReward(distanceMeters))

\* ShipmentRegistry.confirmDrop: the conditions under which it does not revert
ConfirmDropOk(s, oid, distanceMeters, courierSig, buyerSig) ==
  /\ reg[s].orderId # 0
  /\ reg[s].orderId = oid
  /\ reg[s].pickupSigned
  /\ ~reg[s].delivered
  /\ IsValidSignature(reg[s].courier, courierSig)
  /\ IsValidSignature("buyer", buyerSig)
  /\ ReleaseFromShipmentOk(CalculateReward(distanceMeters))

\* effect of a successful confirmPickup
ConfirmPickupEffect(s) ==
  /\ reg' = [reg EXCEPT ![s].pickupSigned = TRUE]
  /\ nPickup' = [nPickup EXCEPT ![s] = @ + 1]
  /\ UNCHANGED <<oracle, chOrder, escrowed, paid, paidVia, nDrop, dropEvent>>

\* effect of a successful confirmDrop, releaseEscrowFromShipment included
ConfirmDropEffect(s, distanceMeters) ==
  LET reward == CalculateReward(distanceMeters)
      rest == chOrder.amount - reward
  IN /\ reg' = [reg EXCEPT ![s].delivered = TRUE]
     /\ nDrop' = [nDrop EXCEPT ![s] = @ + 1]
     /\ dropEvent' = [distanceMeters |-> distanceMeters, courierReward |-> reward]
     /\ escrowed' = escrowed - reward - rest
     /\ paid' = [paid EXCEPT !.courier = @ + reward, !.supplier = @ + rest]
     /\ paidVia' = paidVia \cup {"shipment"}
     /\ chOrder' = [chOrder EXCEPT !.amount = 0, !.status = "Delivered"]
     /\ UNCHANGED <<oracle, nPickup>>

\* ------------------------------------------------- direct contract calls

\* OrderRegistry.createOrder(ChainOrderId, buyer, supplier, OrderAmount)
ChainCreateOrder ==
  /\ chOrder.status = "None"
  /\ chOrder' = [status |-> "Created", amount |-> OrderAmount]
  /\ UNCHANGED <<oracle, escrowed, paid, paidVia, reg, nPickup, nDrop, dropEvent,
                 dbOrder, payment, dbShip, proofs, stock, sessions, req, settled, chainFailed, replayed, now, late, payRows, flowVars>>

\* EscrowPYUSD.fund(ChainOrderId, OrderAmount), by any payer, while no more
\* than cap tokens have been paid in
ChainFundWithin(cap) ==
  /\ escrowed + paid.supplier + paid.courier + paid.buyer + OrderAmount <= cap
  /\ escrowed' = escrowed + OrderAmount
  /\ funded' = funded + OrderAmount
  /\ UNCHANGED <<oracle, chOrder, paid, paidVia, reg, nPickup, nDrop, dropEvent,
                 dbOrder, payment, dbShip, proofs, stock, sessions, req, settled, chainFailed, replayed, now, late, payRows,
                 statusReq, verifyCall, orderRegistry, escrowCaller, allowance, fundFlow, resolved,
                 assignReq, tokenCall, chainErr, geofence>>

ChainFund == ChainFundWithin(MaxFunded)

\* OrderRegistry.markFunded, by the buyer
ChainMarkFunded ==
  /\ chOrder.status = "Created"
  /\ chOrder' = [chOrder EXCEPT !.status = "Funded"]
  /\ UNCHANGED <<oracle, escrowed, paid, paidVia, reg, nPickup, nDrop, dropEvent,
                 dbOrder, payment, dbShip, proofs, stock, sessions, req, settled, chainFailed, replayed, now, late, payRows, flowVars>>

\* OrderRegistry.markDisputed, by the buyer or the supplier
ChainMarkDisputed ==
  /\ chOrder.status \in {"Funded", "Delivered"}
  /\ chOrder' = [chOrder EXCEPT !.status = "Disputed"]
  /\ UNCHANGED <<oracle, escrowed, paid, paidVia, reg, nPickup, nDrop, dropEvent,
                 dbOrder, payment, dbShip, proofs, stock, sessions, req, settled, chainFailed, replayed, now, late, payRows, flowVars>>

\* OrderRegistry.resolveDispute(ChainOrderId, releaseToSupplier), by the owner
ChainResolveDispute(releaseToSupplier) ==
  /\ chOrder.status = "Disputed"
  /\ EscrowCanPay(chOrder.amount)
  /\ escrowed' = escrowed - chOrder.amount
  /\ IF releaseToSupplier
       THEN /\ paid' = [paid EXCEPT !.supplier = @ + chOrder.amount]
            /\ paidVia' = paidVia \cup {"dispute"}
            /\ chOrder' = [chOrder EXCEPT !.status = "Delivered"]
       ELSE /\ paid' = [paid EXCEPT !.buyer = @ + chOrder.amount]
            /\ paidVia' = paidVia
            /\ chOrder' = [chOrder EXCEPT !.status = "Resolved"]
  /\ UNCHANGED <<oracle, reg, nPickup, nDrop, dropEvent,
                 dbOrder, payment, dbShip, proofs, stock, sessions, req, settled, chainFailed, replayed, now, late, payRows, flowVars>>

\* OrderRegistry.releaseEscrow, by the delivery oracle when it is an account
\* (the ShipmentRegistry contract never makes this call)
ChainReleaseEscrow ==
  /\ oracle = "account"
  /\ chOrder.status = "Funded"
  /\ EscrowCanPay(chOrder.amount)
  /\ escrowed' = escrowed - chOrder.amount
  /\ paid' = [paid EXCEPT !.supplier = @ + chOrder.amount]
  /\ paidVia' = paidVia \cup {"oracle"}
  /\ chOrder' = [chOrder EXCEPT !.status = "Delivered"]
  /\ UNCHANGED <<oracle, reg, nPickup, nDrop, dropEvent,
                 dbOrder, payment, dbShip, proofs, stock, sessions, req, settled, chainFailed, replayed, now, late, payRows, flowVars>>

\* ShipmentRegistry.confirmPickup called directly with signatures of any signers
ChainConfirmPickup(s) ==
  /\ \E courierSig \in Addr, supplierSig \in Addr :
       ConfirmPickupOk(s, ChainOrderId, courierSig, supplierSig)
  /\ ConfirmPickupEffect(s)
  /\ UNCHANGED <<dbOrder, payment, dbShip, proofs, stock, sessions, req, settled, chainFailed, replayed, now, late, payRows, flowVars>>

\* ShipmentRegistry.confirmDrop called directly with signatures of any signers
\* over an approval of any distance
ChainConfirmDrop(s, distanceMeters) ==
  /\ \E courierSig \in Addr, buyerSig \in Addr :
       ConfirmDropOk(s, ChainOrderId, distanceMeters, courierSig, buyerSig)
  /\ ConfirmDropEffect(s, distanceMeters)
  /\ UNCHANGED <<dbOrder, payment, dbShip, proofs, stock, sessions, req, settled, chainFailed, replayed, now, late, payRows, flowVars>>

\* OrderRegistry.setOracle, by the owner: the shipment registry's address (what
\* the deployment script passes by default) or an account's
ChainSetOracle(o) ==
  /\ o \in {"registry", "account"}
  /\ oracle # o
  /\ oracle' = o
  /\ UNCHANGED <<chOrder, escrowed, paid, paidVia, reg, nPickup, nDrop, dropEvent,
                 dbOrder, payment, dbShip, proofs, stock, sessions, req, settled, chainFailed, replayed, now, late, payRows, flowVars>>

\* ShipmentRegistry.registerShipment(s, ChainOrderId, buyer, supplier, c), by
\* the owner: the entry is written whether or not one exists
ChainRegisterShipment(s, c) ==
  /\ c # "none"
  /\ nPickup[s] < MaxEvents
  /\ reg' = [reg EXCEPT ![s] = [orderId |-> ChainOrderId, courier |-> c,
                                pickupSigned |-> FALSE, delivered |-> FALSE]]
  /\ UNCHANGED <<oracle, chOrder, escrowed, paid, paidVia, nPickup, nDrop, dropEvent,
                 dbOrder, payment, dbShip, proofs, stock, sessions, req, settled, chainFailed, replayed, now, late, payRows, flowVars>>

\* ============================================================ order routes

\* POST /api/me/orders: the buyer raises the order
CreateOrderDb ==
  /\ dbOrder = "None"
  /\ dbOrder' = "Created"
  /\ UNCHANGED <<oracle, chOrder, escrowed, paid, paidVia, reg, nPickup, nDrop, dropEvent,
                 payment, dbShip, proofs, stock, sessions, req, settled, chainFailed, replayed, now, late, payRows, flowVars>>

\* the values of Order.status
OrderStatuses ==
  {"Created", "Approved", "Funded", "InFulfillment", "Shipped", "Delivered",
   "Disputed", "Resolved", "Cancelled"}

BUYER_TRANSITIONS(current) ==
  CASE current = "Created" -> {"Approved", "Cancelled"}
    [] current = "Approved" -> {"Funded", "Cancelled"}
    [] current = "Funded" -> {"Disputed"}
    [] current = "Shipped" -> {"Disputed"}
    [] current = "Delivered" -> {"Disputed"}
    [] current = "Disputed" -> {"Resolved"}
    [] OTHER -> {}

SUPPLIER_TRANSITIONS(current) ==
  CASE current = "Created" -> {"Approved"}
    [] current = "Approved" -> {"InFulfillment", "Cancelled"}
    [] current = "Funded" -> {"InFulfillment"}
    [] current = "InFulfillment" -> {"Shipped", "Cancelled"}
    [] current = "Shipped" -> {"Delivered", "Cancelled"}
    [] current = "Delivered" -> {"Resolved"}
    [] current = "Disputed" -> {"Resolved"}
    [] OTHER -> {}

allowedStatuses(current, isBuyer, isSupplier) ==
  (IF isBuyer THEN BUYER_TRANSITIONS(current) ELSE {})
    \cup (IF isSupplier THEN SUPPLIER_TRANSITIONS(current) ELSE {})

\* POST /api/me/orders/[orderId]/status
SetOrderStatus(wallet, nextStatus) ==
  /\ dbOrder # "None"
  /\ dbOrder # nextStatus
  /\ nextStatus \in allowedStatuses(dbOrder, wallet = "buyer", wallet = "supplier")
  /\ dbOrder' = nextStatus
  /\ payment' = IF nextStatus = "Funded" THEN "Escrowed" ELSE payment
  /\ payRows' = IF nextStatus = "Funded" /\ payRows = 0 THEN 1 ELSE payRows
  /\ UNCHANGED <<oracle, chOrder, escrowed, paid, paidVia, reg, nPickup, nDrop, dropEvent,
                 dbShip, proofs, stock, sessions, req, settled, chainFailed, replayed, now, late, flowVars>>

\* ========================================================= shipment routes

\* POST /api/me/shipments by the order's supplier, with body.id = s and
\* body.assignedCourier = c ("null" when absent).  registerShipment is sent
\* first and overwrites the registry entry; the row insert follows and fails
\* when a row with that id exists.
CreateShipment(s, c) ==
  /\ dbOrder # "None"
  /\ nPickup[s] < MaxEvents
  /\ reg' = [reg EXCEPT ![s] = [orderId |-> ChainOrderId,
                                courier |-> IF c = "null" THEN "supplier" ELSE c,
                                pickupSigned |-> FALSE, delivered |-> FALSE]]
  /\ IF dbShip[s].status = "None"
       THEN /\ dbShip' = [dbShip EXCEPT ![s] = [status |-> "Created", courier |-> c]]
            /\ dbOrder' = IF dbOrder \in {"Approved", "Funded"} THEN "InFulfillment" ELSE dbOrder
       ELSE UNCHANGED <<dbShip, dbOrder>>
  /\ UNCHANGED <<oracle, chOrder, escrowed, paid, paidVia, nPickup, nDrop, dropEvent,
                 payment, proofs, stock, sessions, req, settled, chainFailed, replayed, now, late, payRows, flowVars>>

\* the same request when no shipment with that id is registered yet
CreateShipmentFresh(s, c) ==
  /\ reg[s].orderId = 0
  /\ dbShip[s].status = "None"
  /\ CreateShipment(s, c)

\* incrementBuyerInventory: the upsert of the order's line item
IncrementBuyerInventory(qty) == stock + qty

\* the courier drop route that writes the delivery without a chain call
\* (proof, shipment, order, inventory and payment in one transaction)
CourierDropDirect(s, caller) ==
  /\ dbShip[s].status # "None"
  /\ dbOrder # "None"
  /\ IF dbShip[s].courier # "null"
       THEN caller = dbShip[s].courier
       ELSE caller = "buyer"
  /\ proofs[s].drop < MaxDirect
  /\ proofs' = [proofs EXCEPT ![s].drop = @ + 1]
  /\ dbShip' = [dbShip EXCEPT ![s].status = "Delivered"]
  /\ dbOrder' = "Delivered"
  /\ stock' = IncrementBuyerInventory(ItemQty)
  /\ payment' = IF payment # "None" THEN "Released" ELSE payment
  /\ UNCHANGED <<oracle, chOrder, escrowed, paid, paidVia, reg, nPickup, nDrop, dropEvent,
                 sessions, req, settled, chainFailed, replayed, now, late, payRows, flowVars>>

\* ========================================================= signing sessions

FreeSession == [ship |-> 0, kind |-> "none", status |-> "Free", link |-> "none",
                deadline |-> 0, expired |-> FALSE, courier |-> "none",
                counterparty |-> "none", distanceMeters |-> 0,
                targetDistance |-> 0, radiusM |-> 0,
                shipmentHash |-> <<>>, claimedTs |-> 0]

\* deriveShipmentRegistryId: keccak256 of the shipment id's UTF-8 bytes, one
\* value per id
DeriveShipmentRegistryId(s) == <<"keccak256", s>>

\* a claimedTs a courier's client sends: the time of the claim, in seconds
ClaimTs == 1

expectedRole(kind) == IF kind = "drop" THEN "buyer" ELSE "supplier"
expectedStatus(kind) == IF kind = "drop" THEN "PENDING_BUYER" ELSE "PENDING_SUPPLIER"

\* tokenPayload.exp of createSession: Math.floor(deadline.getTime() / 1000)
TokenExp(deadline) == deadline \div TicksPerSecond

\* verifyMagicLinkToken at time t: Date.now() / 1000 > payload.exp rejects
VerifyMagicLinkToken(t, exp) == ~(t > exp * TicksPerSecond)

\* the handlers' check of the link: expiresAt.getTime() < Date.now() rejects
LinkUnexpired(t, expiresAt) == ~(expiresAt < t)

\* expiry checks that would let every token and link pass
LiveAtNeverChecked(t, deadline) == TRUE

\* whether the token and link of a session with that deadline pass at time t
LiveAt(t, deadline) ==
  VerifyMagicLinkToken(t, TokenExp(deadline)) /\ LinkUnexpired(t, deadline)

\* the handlers' expiry checks for session sid; expired records that the
\* clock has gone past what they accept
TokenLive(sid) == ~sessions[sid].expired

\* a distance check that would let every distance pass
DistanceOkNeverChecked(distanceMeters, plannedDistance) == TRUE

\* createSession's comparison of body.distanceMeters with the planned distance
DistanceOk(distanceMeters, plannedDistance) ==
  ~((IF distanceMeters >= plannedDistance
       THEN distanceMeters - plannedDistance
       ELSE plannedDistance - distanceMeters) > DistanceTolerance)

\* createSession's radiusMeters for body.radiusM = radiusM (0 stands for a
\* request that names none as well)
ResolveRadius(radiusM) ==
  LET requestedRadius == IF radiusM > 0 THEN radiusM ELSE 0
  IN IF requestedRadius > 0 THEN requestedRadius ELSE DEFAULT_RADIUS_METERS

\* a geofence that would let every location pass
WithinRadiusNeverChecked(targetDistance, radiusMeters) == TRUE

\* a geofence that would refuse the edge of the radius
WithinRadiusStrict(targetDistance, radiusMeters) == targetDistance < radiusMeters

\* createSession's geofence: pickupDistance > radiusMeters (dropDistance for
\* a drop) is refused
WithinRadius(targetDistance, radiusMeters) == ~(targetDistance > radiusMeters)

\* isWithinRadius of lib/geo: geodesicDistance(...) <= radiusM
IsWithinRadius(distance, radiusM) == distance <= radiusM

\* POST /api/signing-sessions by the courier, targetDistance metres from the
\* session's target, with body.radiusM = radiusM and body.distanceMeters =
\* distanceMeters: the checks, then the session insert and the magic-link
\* insert (two separate writes; linkOk = FALSE is the second one failing)
CreateSessionWith(sid, s, kind, caller, targetDistance, radiusM, courierSig, linkOk, distanceMeters, shipmentHash, claimedTs) ==
  /\ sessions[sid].status = "Free"
  /\ \A k \in SessIds : k < sid => sessions[k].status # "Free"
  /\ dbShip[s].status # "None"
  /\ dbShip[s].courier # "null"
  /\ dbShip[s].courier = caller
  /\ WithinRadius(targetDistance, ResolveRadius(radiusM))
  /\ kind = "drop" => dbShip[s].status \in {"InTransit", "Delivered"}
  /\ IF kind = "drop"
       THEN DistanceOk(distanceMeters, PlannedDistance)
       ELSE distanceMeters = PlannedDistance
  /\ courierSig = dbShip[s].courier
  /\ sessions' = [sessions EXCEPT ![sid] =
       [ship |-> s, kind |-> kind, status |-> expectedStatus(kind),
        link |-> IF linkOk THEN "unused" ELSE "none",
        deadline |-> now + SessionTtl, expired |-> FALSE,
        courier |-> dbShip[s].courier,
        counterparty |-> expectedRole(kind),
        distanceMeters |-> IF kind = "drop" THEN distanceMeters ELSE 0,
        targetDistance |-> targetDistance, radiusM |-> ResolveRadius(radiusM),
        shipmentHash |-> shipmentHash, claimedTs |-> claimedTs]]
  /\ UNCHANGED <<oracle, chOrder, escrowed, paid, paidVia, reg, nPickup, nDrop, dropEvent,
                 dbOrder, payment, dbShip, proofs, stock, req, settled, chainFailed, replayed, now, late, payRows, flowVars>>

\* the same request from a client that sends the shipment's registry id and
\* the time of the claim
CreateSession(sid, s, kind, caller, targetDistance, radiusM, courierSig, linkOk, distanceMeters) ==
  CreateSessionWith(sid, s, kind, caller, targetDistance, radiusM, courierSig, linkOk,
                    distanceMeters, DeriveShipmentRegistryId(s), ClaimTs)

\* the fields of a resolve or complete request other than the token and the
\* signature: none, or ones naming another courier and another distance
NoBody == [courier |-> "none", distanceMeters |-> 0]

Bodies == {NoBody, [courier |-> "other", distanceMeters |-> PlannedDistance + 1]}

NoMsg == [shipmentId |-> 0, courier |-> "none", counterparty |-> "none", distanceMeters |-> 0]

\* typed data that would take the courier and the distance from the request
BuildTypedDataFromBody(sid, body) ==
  [shipmentId |-> sessions[sid].ship,
   courier |-> IF body.courier # "none" THEN body.courier ELSE sessions[sid].courier,
   counterparty |-> sessions[sid].counterparty,
   distanceMeters |-> IF body.courier # "none" THEN body.distanceMeters
                      ELSE sessions[sid].distanceMeters]

\* buildPickupTypedData / buildDropTypedData as the GET and POST handlers
\* call them: every field comes from the stored session row and its payload
\* (a pickup message has no distance, stored as 0)
BuildTypedData(sid, body) ==
  [shipmentId |-> sessions[sid].ship,
   courier |-> sessions[sid].courier,
   counterparty |-> sessions[sid].counterparty,
   distanceMeters |-> sessions[sid].distanceMeters]

Idle == [pc |-> "idle", sid |-> 0, retry |-> FALSE, body |-> NoBody, msg |-> NoMsg]

\* the session was completed and its link used
Completed(sid) == sessions[sid].status = "COMPLETED" /\ sessions[sid].link = "used"

\* resolveSession checking only the token
ResolveCodeTokenOnly(sid) ==
  IF ~TokenLive(sid) THEN 403 ELSE 200

\* the status a resolveSession call answers with (GET handler, in its order)
ResolveCode(sid) ==
  IF ~TokenLive(sid) THEN 403
  ELSE IF sessions[sid].status # expectedStatus(sessions[sid].kind) THEN 409
  ELSE IF sessions[sid].link = "used" THEN 409
  ELSE 200

\* GET /api/signing-sessions/[sessionId]?t=token: a read; the answer to a call
\* made after the session completed is recorded
ResolveSession(sid) ==
  /\ sessions[sid].link # "none"
  /\ Completed(sid) \/ now > sessions[sid].deadline
  /\ replayed' = IF Completed(sid)
                   THEN [replayed EXCEPT ![sid] = ResolveCode(sid)]
                   ELSE replayed
  /\ late' = IF now > sessions[sid].deadline
               THEN [late EXCEPT ![sid] = ResolveCode(sid)]
               ELSE late
  /\ UNCHANGED <<oracle, chOrder, escrowed, paid, paidVia, reg, nPickup, nDrop, dropEvent,
                 dbOrder, payment, dbShip, proofs, stock, sessions, req, settled, chainFailed, now, payRows, flowVars>>

\* completeSession's geofence: the distance from the stored target to the
\* stored courier location against payload.radiusM (the default when that
\* is not positive); distanceToTarget > radiusMeters is refused
RecheckRadius(sid) ==
  WithinRadius(sessions[sid].targetDistance, ResolveRadius(sessions[sid].radiusM))

\* completeSession checking only the token's expiry and the signature
CompleteCodeNoReplayCheck(sid, sig) ==
  IF ~TokenLive(sid) THEN 403
  ELSE IF sig # sessions[sid].counterparty THEN 400
  ELSE 0

\* the status completeSession answers with before it reaches the chain call,
\* 0 when every check passes (POST handler, in its order)
CompleteCode(sid, sig) ==
  IF ~TokenLive(sid) THEN 403
  ELSE IF sessions[sid].link = "used" THEN 409
  ELSE IF sessions[sid].status # expectedStatus(sessions[sid].kind) THEN 409
  ELSE IF ~RecheckRadius(sid) THEN 403
  ELSE IF sig # sessions[sid].counterparty THEN 400
  ELSE 0

\* POST /api/signing-sessions/[sessionId]/sign?t=token with body.signature =
\* sig: the checks up to the chain call
CompleteBeginWith(r, sid, sig, body) ==
  /\ req[r].pc = "idle"
  /\ \A q \in Reqs : q < r => req[q].pc # "idle"
  /\ sessions[sid].link # "none"
  /\ LET code == CompleteCode(sid, sig)
     IN /\ IF code = 0
             THEN /\ req' = [req EXCEPT ![r] = [pc |-> "chain", sid |-> sid,
                                                 retry |-> chainFailed[sid],
                                                 body |-> body,
                                                 msg |-> BuildTypedData(sid, body)]]
                  /\ UNCHANGED replayed
             ELSE /\ replayed' = IF Completed(sid)
                                   THEN [replayed EXCEPT ![sid] = code]
                                   ELSE replayed
                  /\ UNCHANGED req
        /\ late' = IF now > sessions[sid].deadline
                     THEN [late EXCEPT ![sid] = IF code = 0 THEN 200 ELSE code]
                     ELSE late
  /\ UNCHANGED <<oracle, chOrder, escrowed, paid, paidVia, reg, nPickup, nDrop, dropEvent,
                 dbOrder, payment, dbShip, proofs, stock, sessions, settled, chainFailed, now, payRows, flowVars>>

\* the same request carrying nothing but the signature
CompleteBegin(r, sid, sig) == CompleteBeginWith(r, sid, sig, NoBody)

\* finalizeDropMilestone's distanceMeters: Math.max(0, Math.round(...)) of the
\* distance stored in the session payload
SubmittedDistance(sid) ==
  IF sessions[sid].distanceMeters < 0 THEN 0 ELSE sessions[sid].distanceMeters

\* the signer the registry recovers from a drop signature made over the
\* session's typed data: the signer itself when the approval submitted carries
\* the distance that was signed, an unrelated address otherwise
RecoveredOverDrop(sid, signer) ==
  IF SubmittedDistance(sid) = sessions[sid].distanceMeters THEN signer ELSE "other"

\* whether the registry accepts the confirmation submitted for session sid:
\* the stored courier signature and the verified counterparty signature
ChainAccepts(sid) ==
  IF sessions[sid].kind = "drop"
    THEN ConfirmDropOk(sessions[sid].ship, ChainOrderId, SubmittedDistance(sid),
                       RecoveredOverDrop(sid, sessions[sid].courier),
                       RecoveredOverDrop(sid, sessions[sid].counterparty))
    ELSE ConfirmPickupOk(sessions[sid].ship, ChainOrderId, sessions[sid].courier,
                         sessions[sid].counterparty)

\* a catch that would burn the magic link before rethrowing
ChainFailureBurnsLink(r) ==
  /\ req' = [req EXCEPT ![r] = Idle]
  /\ chainFailed' = [chainFailed EXCEPT ![req[r].sid] = TRUE]
  /\ sessions' = [sessions EXCEPT ![req[r].sid].link = "used"]
  /\ UNCHANGED <<dbOrder, payment, dbShip, proofs, stock, settled, replayed, now, late, payRows, flowVars>>

\* the catch around registry.confirmPickup / confirmDrop: the error is
\* rethrown and the request ends with no relational write
ChainFailure(r) ==
  /\ req' = [req EXCEPT ![r] = Idle]
  /\ chainFailed' = [chainFailed EXCEPT ![req[r].sid] = TRUE]
  /\ UNCHANGED <<dbOrder, payment, dbShip, proofs, stock, sessions, settled, replayed, now, late, payRows, flowVars>>

\* finalizePickupMilestone / finalizeDropMilestone before the registry call:
\* a claimedTs that is not positive, or a payload.shipmentHash other than the
\* registry id derived from the session's shipment, throws
FinalizeChecks(sid) ==
  /\ ~(sessions[sid].claimedTs <= 0)
  /\ sessions[sid].shipmentHash = DeriveShipmentRegistryId(sessions[sid].ship)

\* finalizePickupMilestone / finalizeDropMilestone: the chain call.  It
\* throws before the call, fails at the RPC (rpcOk = FALSE), reverts, or is
\* included.
CompleteChain(r, rpcOk) ==
  /\ req[r].pc = "chain"
  /\ LET sid == req[r].sid
     IN IF rpcOk /\ FinalizeChecks(sid) /\ ChainAccepts(sid)
          THEN /\ IF sessions[sid].kind = "drop"
                    THEN ConfirmDropEffect(sessions[sid].ship, SubmittedDistance(sid))
                    ELSE ConfirmPickupEffect(sessions[sid].ship)
               /\ req' = [req EXCEPT ![r].pc = "dbtx"]
               /\ UNCHANGED <<dbOrder, payment, dbShip, proofs, stock, sessions,
                              settled, chainFailed, replayed, now, late, payRows, flowVars>>
          ELSE /\ ChainFailure(r)
               /\ UNCHANGED chainVars

\* a pickup transaction that would leave the order where it was
PickupTxShipmentOnly(s) ==
  /\ proofs' = [proofs EXCEPT ![s].pickupCountersign = @ + 1]
  /\ dbShip' = [dbShip EXCEPT ![s].status = "InTransit"]
  /\ UNCHANGED <<dbOrder, stock, payment>>

\* the relational transaction of finalizePickupMilestone
PickupTx(s) ==
  /\ proofs' = [proofs EXCEPT ![s].pickupCountersign = @ + 1]
  /\ dbShip' = [dbShip EXCEPT ![s].status = "InTransit"]
  /\ dbOrder' = "Shipped"
  /\ UNCHANGED <<stock, payment>>

\* the relational transaction of finalizeDropMilestone
DropTx(s) ==
  /\ proofs' = [proofs EXCEPT ![s].dropCountersign = @ + 1]
  /\ dbShip' = [dbShip EXCEPT ![s].status = "Delivered"]
  /\ dbOrder' = "Delivered"
  /\ stock' = IncrementBuyerInventory(ItemQty)
  /\ payment' = IF payment # "None" THEN "Released" ELSE payment

\* the milestone transaction of a request: it commits (dbOk) or fails whole
CompleteMilestoneTx(r, dbOk) ==
  /\ req[r].pc = "dbtx"
  /\ LET sid == req[r].sid
     IN IF dbOk
          THEN /\ IF sessions[sid].kind = "drop"
                    THEN DropTx(sessions[sid].ship)
                    ELSE PickupTx(sessions[sid].ship)
               /\ settled' = [settled EXCEPT ![sid] = IF req[r].retry THEN "retry" ELSE "first"]
               /\ req' = [req EXCEPT ![r].pc = "final"]
          ELSE /\ req' = [req EXCEPT ![r] = Idle]
               /\ UNCHANGED <<dbOrder, payment, dbShip, proofs, stock, settled>>
  /\ UNCHANGED <<oracle, chOrder, escrowed, paid, paidVia, reg, nPickup, nDrop, dropEvent,
                 sessions, chainFailed, replayed, now, late, payRows, flowVars>>

\* a completion that would write usedAt alone
SessionCompleteTxLinkOnly(sid) ==
  [sessions EXCEPT ![sid].link = "used"]

\* prisma.$transaction([signingSession.update, magicLink.update])
SessionCompleteTx(sid) ==
  [sessions EXCEPT ![sid].status = "COMPLETED", ![sid].link = "used"]

\* the last transaction of a request: it commits (dbOk) or fails whole
CompleteFinalTx(r, dbOk) ==
  /\ req[r].pc = "final"
  /\ req' = [req EXCEPT ![r] = Idle]
  /\ IF dbOk
       THEN sessions' = SessionCompleteTx(req[r].sid)
       ELSE UNCHANGED sessions
  /\ UNCHANGED <<oracle, chOrder, escrowed, paid, paidVia, reg, nPickup, nDrop, dropEvent,
                 dbOrder, payment, dbShip, proofs, stock, settled, chainFailed, replayed, now, late, payRows, flowVars>>

\* the clock passes the deadline of session sid (Date.now() + ttl at its
\* creation): deadlines are in creation order, so they pass in that order
DeadlinePasses(sid) ==
  /\ sessions[sid].status # "Free"
  /\ ~sessions[sid].expired
  /\ \A k \in SessIds : k < sid => sessions[k].expired
  /\ sessions' = [sessions EXCEPT ![sid].expired = TRUE]
  /\ UNCHANGED <<oracle, chOrder, escrowed, paid, paidVia, reg, nPickup, nDrop, dropEvent,
                 dbOrder, payment, dbShip, proofs, stock, req, settled, chainFailed, replayed, now, late, payRows, flowVars>>

\* the clock advances by one tick; the sessions whose token or link no longer
\* passes the expiry checks become expired
Tick ==
  /\ now < MaxClock
  /\ now' = now + 1
  /\ sessions' = [k \in SessIds |->
       IF sessions[k].status # "Free" /\ ~LiveAt(now + 1, sessions[k].deadline)
         THEN [sessions[k] EXCEPT !.expired = TRUE]
         ELSE sessions[k]]
  /\ UNCHANGED <<oracle, chOrder, escrowed, paid, paidVia, reg, nPickup, nDrop, dropEvent,
                 dbOrder, payment, dbShip, proofs, stock, req, settled, chainFailed, replayed,
                 late, payRows, flowVars>>

\* ============================================================ specification

StatusReqs == 1..MaxStatusReq

AssignReqs == 1..MaxAssignReq

AssignIdle == [pc |-> "idle", ship |-> 0, nextCourier |-> "null"]

NoTokenCall == [op |-> "none", token |-> [sid |-> 0, role |-> "none"], sid |-> 0,
                sig |-> "none", code |-> 0]

NoRefusal == [route |-> "none", distance |-> 0, radius |-> 0, code |-> 0]

NoChainErr == [route |-> "none", ship |-> 0, code |-> 0]

StatusIdle == [pc |-> "idle", next |-> "None", found |-> FALSE]

NoVerify == [expectedSigner |-> "none", recovered |-> "none", hasCode |-> FALSE,
             result |-> "none", valid |-> "idle"]

FlowIdle == [pc |-> "idle", buyerSet |-> FALSE, needMarkFunded |-> FALSE,
             needApprove |-> FALSE, funds |-> 0]

\* the state after deployment (scripts/deploy.ts wires the escrow to the order
\* registry) with an empty store and no request in flight
InitBase ==
  /\ oracle = "none"
  /\ chOrder = [status |-> "None", amount |-> 0]
  /\ escrowed = 0
  /\ paid = [supplier |-> 0, courier |-> 0, buyer |-> 0]
  /\ paidVia = {}
  /\ reg = [s \in Ships |-> NoReg]
  /\ nPickup = [s \in Ships |-> 0]
  /\ nDrop = [s \in Ships |-> 0]
  /\ dropEvent = [distanceMeters |-> 0, courierReward |-> 0]
  /\ dbOrder = "None"
  /\ payment = "None"
  /\ dbShip = [s \in Ships |-> [status |-> "None", courier |-> "null"]]
  /\ proofs = [s \in Ships |-> [pickupCountersign |-> 0, dropCountersign |-> 0, drop |-> 0]]
  /\ stock = 0
  /\ sessions = [k \in SessIds |-> FreeSession]
  /\ req = [r \in Reqs |-> Idle]
  /\ settled = [k \in SessIds |-> "no"]
  /\ chainFailed = [k \in SessIds |-> FALSE]
  /\ replayed = [k \in SessIds |-> 0]
  /\ now = 0
  /\ late = [k \in SessIds |-> 0]
  /\ payRows = 0
  /\ statusReq = [q \in StatusReqs |-> StatusIdle]
  /\ allowance = 0
  /\ escrowCaller = "none"
  /\ fundFlow = FlowIdle
  /\ resolved = [k \in SessIds |-> NoMsg]
  /\ assignReq = [a \in AssignReqs |-> AssignIdle]
  /\ tokenCall = NoTokenCall
  /\ chainErr = NoChainErr
  /\ geofence = NoRefusal
  /\ funded = 0

Init ==
  /\ InitBase
  /\ verifyCall = NoVerify
  /\ orderRegistry = "registry"

\* the order is raised and funded, on-chain and in the store
SetupNext ==
  \/ ChainCreateOrder
  \/ ChainFund
  \/ ChainMarkFunded
  \/ CreateOrderDb

SessionNext ==
  \/ \E sid \in SessIds, s \in Ships, kind \in Kinds, caller \in Addr,
        targetDistance \in {0, DEFAULT_RADIUS_METERS + 1}, radiusM \in {0},
        courierSig \in Addr, linkOk \in BOOLEAN,
        distanceMeters \in {PlannedDistance} :
          CreateSession(sid, s, kind, caller, targetDistance, radiusM, courierSig, linkOk,
                        distanceMeters)
  \/ \E sid \in SessIds : ResolveSession(sid)
  \/ \E r \in Reqs, sid \in SessIds, sig \in {"supplier", "buyer", "other"} :
          CompleteBegin(r, sid, sig)
  \/ \E r \in Reqs, rpcOk \in BOOLEAN : CompleteChain(r, rpcOk)
  \/ \E r \in Reqs, dbOk \in BOOLEAN : CompleteMilestoneTx(r, dbOk)
  \/ \E r \in Reqs, dbOk \in BOOLEAN : CompleteFinalTx(r, dbOk)
  \/ \E sid \in SessIds : DeadlinePasses(sid)

Next ==
  \/ SetupNext
  \/ \E s \in Ships, c \in {"null", "courier"} : CreateShipment(s, c)
  \/ \E s \in Ships, caller \in Addr : CourierDropDirect(s, caller)
  \/ SessionNext

Spec == Init /\ [][Next]_vars

\* the contracts alone: every external entry point, called by whoever passes
\* its access check, in any order
ChainNext ==
  \/ ChainCreateOrder
  \/ ChainFund
  \/ ChainMarkFunded
  \/ ChainMarkDisputed
  \/ \E releaseToSupplier \in BOOLEAN : ChainResolveDispute(releaseToSupplier)
  \/ \E o \in {"registry", "account"} : ChainSetOracle(o)
  \/ ChainReleaseEscrow
  \/ \E s \in Ships, c \in {"courier", "supplier"} : ChainRegisterShipment(s, c)
  \/ \E s \in Ships : ChainConfirmPickup(s)
  \/ \E s \in Ships, d \in 0..MaxDistance : ChainConfirmDrop(s, d)

SpecChain == Init /\ [][ChainNext]_vars

\* createSession and completeSession requests, in any interleaving, on
\* shipments that are each registered once
SessionsNext ==
  \/ SetupNext
  \/ \E s \in Ships, c \in {"null", "courier"} : CreateShipmentFresh(s, c)
  \/ SessionNext

SpecSessions == Init /\ [][SessionsNext]_vars

\* the sessions of once-registered shipments while no deadline passes
BeforeDeadlineNext ==
  \/ SetupNext
  \/ \E s \in Ships, c \in {"null", "courier"} : CreateShipmentFresh(s, c)
  \/ \E sid \in SessIds, s \in Ships, kind \in Kinds, caller \in Addr,
        targetDistance \in {0, DEFAULT_RADIUS_METERS + 1}, radiusM \in {0},
        courierSig \in Addr, linkOk \in BOOLEAN,
        distanceMeters \in {PlannedDistance} :
          CreateSession(sid, s, kind, caller, targetDistance, radiusM, courierSig, linkOk,
                        distanceMeters)
  \/ \E sid \in SessIds : ResolveSession(sid)
  \/ \E r \in Reqs, sid \in SessIds, sig \in {"supplier", "buyer", "other"} :
          CompleteBegin(r, sid, sig)
  \/ \E r \in Reqs, rpcOk \in BOOLEAN : CompleteChain(r, rpcOk)
  \/ \E r \in Reqs, dbOk \in BOOLEAN : CompleteMilestoneTx(r, dbOk)
  \/ \E r \in Reqs, dbOk \in BOOLEAN : CompleteFinalTx(r, dbOk)

\* a request that was started runs each of its awaits to the end; the
\* counterparty keeps submitting; the RPC endpoint and the database, when
\* tried again and again, work again and again
FairSpec ==
  /\ Init
  /\ [][BeforeDeadlineNext]_vars
  /\ WF_vars(\E r \in Reqs, rpcOk \in BOOLEAN : CompleteChain(r, rpcOk))
  /\ WF_vars(\E r \in Reqs, dbOk \in BOOLEAN : CompleteMilestoneTx(r, dbOk))
  /\ WF_vars(\E r \in Reqs, dbOk \in BOOLEAN : CompleteFinalTx(r, dbOk))
  /\ WF_vars(\E r \in Reqs, sid \in SessIds : CompleteBegin(r, sid, sessions[sid].counterparty))
  /\ SF_vars(\E r \in Reqs : CompleteChain(r, TRUE))
  /\ SF_vars(\E r \in Reqs : CompleteMilestoneTx(r, TRUE))
  /\ SF_vars(\E r \in Reqs : CompleteFinalTx(r, TRUE))

\* the sessions of once-registered shipments under a ticking clock
DeadlineNext ==
  \/ CreateOrderDb
  \/ \E s \in Ships, c \in {"null", "courier"} : CreateShipmentFresh(s, c)
  \/ \E sid \in SessIds, s \in Ships, kind \in Kinds, caller \in Addr,
        targetDistance \in {0, DEFAULT_RADIUS_METERS + 1}, radiusM \in {0},
        courierSig \in Addr, linkOk \in BOOLEAN,
        distanceMeters \in {PlannedDistance} :
          CreateSession(sid, s, kind, caller, targetDistance, radiusM, courierSig, linkOk,
                        distanceMeters)
  \/ \E sid \in SessIds : ResolveSession(sid)
  \/ \E r \in Reqs, sid \in SessIds, sig \in {"supplier", "buyer", "other"} :
          CompleteBegin(r, sid, sig)
  \/ \E r \in Reqs, rpcOk \in BOOLEAN : CompleteChain(r, rpcOk)
  \/ \E r \in Reqs, dbOk \in BOOLEAN : CompleteMilestoneTx(r, dbOk)
  \/ \E r \in Reqs, dbOk \in BOOLEAN : CompleteFinalTx(r, dbOk)
  \/ Tick

SpecDeadline == Init /\ [][DeadlineNext]_vars

\* the sessions of once-registered shipments together with the order status
\* route
OrdersNext ==
  \/ SessionsNext
  \/ \E wallet \in Addr, nextStatus \in OrderStatuses : SetOrderStatus(wallet, nextStatus)

SpecOrders == Init /\ [][OrdersNext]_vars

\* values of body.distanceMeters a courier sends: outside the tolerance on
\* either side, on its lower edge, the planned distance and larger ones within
\* the tolerance
ClaimedDistances ==
  {PlannedDistance - DistanceTolerance - 1, PlannedDistance - DistanceTolerance,
   PlannedDistance, PlannedDistance + 1, PlannedDistance + 2,
   PlannedDistance + DistanceTolerance + 1}

\* the sessions of once-registered shipments whose couriers claim any of
\* these distances
DistanceNext ==
  \/ SetupNext
  \/ \E s \in Ships, c \in {"null", "courier"} : CreateShipmentFresh(s, c)
  \/ \E sid \in SessIds, s \in Ships, kind \in Kinds, caller \in Addr,
        targetDistance \in {0, DEFAULT_RADIUS_METERS + 1}, radiusM \in {0},
        courierSig \in Addr, linkOk \in BOOLEAN,
        distanceMeters \in ClaimedDistances :
          CreateSession(sid, s, kind, caller, targetDistance, radiusM, courierSig, linkOk,
                        distanceMeters)
  \/ \E r \in Reqs, sid \in SessIds, sig \in {"supplier", "buyer", "other"} :
          CompleteBegin(r, sid, sig)
  \/ \E r \in Reqs, rpcOk \in BOOLEAN : CompleteChain(r, rpcOk)
  \/ \E r \in Reqs, dbOk \in BOOLEAN : CompleteMilestoneTx(r, dbOk)
  \/ \E r \in Reqs, dbOk \in BOOLEAN : CompleteFinalTx(r, dbOk)

SpecDistance == Init /\ [][DistanceNext]_vars

\* distances of the courier from the target: at it, on the edge of the
\* default and of a requested radius, and a metre past each
TargetDistances ==
  {0, DEFAULT_RADIUS_METERS, DEFAULT_RADIUS_METERS + 1, DEFAULT_RADIUS_METERS + 2,
   DEFAULT_RADIUS_METERS + 3}

\* values of body.radiusM: negative, none, smaller and larger than the default
RadiusInputs == {-1, 0, 1, DEFAULT_RADIUS_METERS + 2}

\* the sessions of once-registered shipments whose couriers stand anywhere
\* and request any radius
\* POST /api/signing-sessions by the assigned courier, refused at the
\* geofence: the distance to the target is beyond the resolved radius, the
\* answer is 400 and nothing is written
CreateSessionOutside(s, kind, caller, targetDistance, radiusM) ==
  /\ dbShip[s].status # "None"
  /\ dbShip[s].courier # "null"
  /\ dbShip[s].courier = caller
  /\ kind = "drop" => dbShip[s].status \in {"InTransit", "Delivered"}
  /\ ~WithinRadius(targetDistance, ResolveRadius(radiusM))
  /\ geofence' = [route |-> "create", distance |-> targetDistance,
                  radius |-> ResolveRadius(radiusM), code |-> 400]
  /\ UNCHANGED <<chainVars, dbVars, req, settled, chainFailed, replayed, now, late, payRows,
                 statusReq, verifyCall, orderRegistry, escrowCaller, allowance, fundFlow,
                 resolved, assignReq, tokenCall, chainErr, funded>>

RadiusNext ==
  \/ CreateOrderDb
  \/ \E s \in Ships, c \in {"null", "courier"} : CreateShipmentFresh(s, c)
  \/ \E sid \in SessIds, s \in Ships, kind \in Kinds, caller \in Addr,
        targetDistance \in TargetDistances, radiusM \in RadiusInputs,
        courierSig \in Addr, linkOk \in BOOLEAN :
          CreateSession(sid, s, kind, caller, targetDistance, radiusM, courierSig, linkOk,
                        PlannedDistance)
  \/ \E r \in Reqs, sid \in SessIds, sig \in {"supplier", "buyer", "other"} :
          CompleteBegin(r, sid, sig)
  \/ \E r \in Reqs, rpcOk \in BOOLEAN : CompleteChain(r, rpcOk)
  \/ \E r \in Reqs, dbOk \in BOOLEAN : CompleteMilestoneTx(r, dbOk)
  \/ \E r \in Reqs, dbOk \in BOOLEAN : CompleteFinalTx(r, dbOk)

SpecRadius == Init /\ [][RadiusNext]_vars

\* the distances and the body.radiusM values around the edge of the radius:
\* the default radius and one metre less, and couriers at, inside and one
\* metre beyond each
EdgeDistances ==
  {DEFAULT_RADIUS_METERS - 1, DEFAULT_RADIUS_METERS, DEFAULT_RADIUS_METERS + 1}

EdgeRadii == {0, DEFAULT_RADIUS_METERS - 1}

GeofenceNext ==
  \/ CreateOrderDb
  \/ \E s \in Ships, c \in {"null", "courier"} : CreateShipmentFresh(s, c)
  \/ \E s \in Ships, kind \in Kinds, caller \in Addr,
        targetDistance \in EdgeDistances, radiusM \in EdgeRadii :
          CreateSessionOutside(s, kind, caller, targetDistance, radiusM)
  \/ \E sid \in SessIds, s \in Ships, kind \in Kinds, caller \in Addr,
        targetDistance \in EdgeDistances, radiusM \in EdgeRadii,
        courierSig \in Addr, linkOk \in BOOLEAN :
          CreateSession(sid, s, kind, caller, targetDistance, radiusM, courierSig, linkOk,
                        PlannedDistance)
  \/ \E r \in Reqs, sid \in SessIds, sig \in {"supplier", "buyer", "other"} :
          CompleteBegin(r, sid, sig)
  \/ \E r \in Reqs, rpcOk \in BOOLEAN : CompleteChain(r, rpcOk)
  \/ \E r \in Reqs, dbOk \in BOOLEAN : CompleteMilestoneTx(r, dbOk)
  \/ \E r \in Reqs, dbOk \in BOOLEAN : CompleteFinalTx(r, dbOk)

SpecGeofence == Init /\ [][GeofenceNext]_vars

\* the same under a clock that keeps ticking and requests that run each of
\* their awaits to the end; no other process of the program is scheduled:
\* the source starts no timer, job or sweep
FairSpecDeadline ==
  /\ Init
  /\ [][DeadlineNext]_vars
  /\ WF_vars(Tick)
  /\ WF_vars(\E r \in Reqs, rpcOk \in BOOLEAN : CompleteChain(r, rpcOk))
  /\ WF_vars(\E r \in Reqs, dbOk \in BOOLEAN : CompleteMilestoneTx(r, dbOk))
  /\ WF_vars(\E r \in Reqs, dbOk \in BOOLEAN : CompleteFinalTx(r, dbOk))

\* ------------------------------------------------ signature verification

\* what verifyTypedData gives for a signature: the recovered address, or
\* "throws" when the signature cannot be recovered
Recoveries == Addr \cup {"throws"}

\* what expectedSigner.isValidSignature(digest, signature) gives
Erc1271Results == {"magic", "otherValue", "reverts"}

\* verifyTypedSignature({expectedSigner, domain, types, message, signature}):
\* a recovered address settles the answer; the ERC-1271 call is made only
\* when recovery throws, and a call to an address without code throws
VerifyTypedSignature(expectedSigner, recovered, hasCode, result) ==
  IF recovered # "throws"
    THEN recovered = expectedSigner
    ELSE hasCode /\ result = "magic"

\* one call of the verifier on the inputs drawn
VerifyCall ==
  /\ verifyCall.valid = "pending"
  /\ verifyCall' = [verifyCall EXCEPT !.valid =
       IF VerifyTypedSignature(verifyCall.expectedSigner, verifyCall.recovered,
                               verifyCall.hasCode, verifyCall.result)
         THEN "true" ELSE "false"]
  /\ UNCHANGED <<chainVars, dbVars, req, settled, chainFailed, replayed, now, late, payRows,
                 statusReq, orderRegistry, escrowCaller, allowance, fundFlow, resolved, reqVars>>

InitVerify ==
  /\ InitBase
  /\ orderRegistry = "registry"
  /\ verifyCall \in [expectedSigner : Addr, recovered : Recoveries, hasCode : BOOLEAN,
                      result : Erc1271Results, valid : {"pending"}]

SpecVerify == InitVerify /\ [][VerifyCall]_vars

\* ------------------------------------------------------ the escrow alone

\* the accounts and the contract that may call the escrow
Callers == Addr \cup {"registry"}

\* the amounts a caller may name
PayAmounts == {0, REWARD_PER_METER, OrderAmount}

\* modifier onlyOrderRegistry
OnlyOrderRegistry(caller) == caller = orderRegistry

\* EscrowPYUSD.setOrderRegistry(_orderRegistry), by any caller: the address
\* is taken from the first call and cannot be changed afterwards
EscrowSetOrderRegistry(caller, r) ==
  /\ orderRegistry = "none"
  /\ r # "none"
  /\ orderRegistry' = r
  /\ UNCHANGED <<chainVars, dbVars, req, settled, chainFailed, replayed, now, late, payRows,
                 statusReq, verifyCall, escrowCaller, allowance, fundFlow, resolved, reqVars>>

\* EscrowPYUSD.fund(ChainOrderId, amount), by any caller
EscrowFund(caller, amount) ==
  /\ orderRegistry # "none"
  /\ amount > 0
  /\ escrowed + paid.supplier + paid.courier + paid.buyer + amount <= MaxFunded
  /\ escrowed' = escrowed + amount
  /\ funded' = funded + amount
  /\ UNCHANGED <<oracle, chOrder, paid, paidVia, reg, nPickup, nDrop, dropEvent,
                 dbVars, req, settled, chainFailed, replayed, now, late, payRows,
                 statusReq, verifyCall, orderRegistry, escrowCaller, allowance, fundFlow, resolved,
                 assignReq, tokenCall, chainErr, geofence>>

\* EscrowPYUSD.release(ChainOrderId, to, amount)
EscrowRelease(caller, to, amount) ==
  /\ OnlyOrderRegistry(caller)
  /\ EscrowCanPay(amount)
  /\ escrowed' = escrowed - amount
  /\ paid' = [paid EXCEPT ![to] = @ + amount]
  /\ escrowCaller' = caller
  /\ UNCHANGED <<oracle, chOrder, paidVia, reg, nPickup, nDrop, dropEvent,
                 dbVars, req, settled, chainFailed, replayed, now, late, payRows,
                 statusReq, verifyCall, orderRegistry, allowance, fundFlow, resolved, reqVars>>

\* EscrowPYUSD.refund(ChainOrderId, to, amount)
EscrowRefund(caller, to, amount) ==
  /\ OnlyOrderRegistry(caller)
  /\ EscrowCanPay(amount)
  /\ escrowed' = escrowed - amount
  /\ paid' = [paid EXCEPT ![to] = @ + amount]
  /\ escrowCaller' = caller
  /\ UNCHANGED <<oracle, chOrder, paidVia, reg, nPickup, nDrop, dropEvent,
                 dbVars, req, settled, chainFailed, replayed, now, late, payRows,
                 statusReq, verifyCall, orderRegistry, allowance, fundFlow, resolved, reqVars>>

\* the escrow as deployed, before any wiring call
InitEscrow ==
  /\ InitBase
  /\ verifyCall = NoVerify
  /\ orderRegistry = "none"

EscrowNext ==
  \/ \E caller \in Callers, r \in Callers : EscrowSetOrderRegistry(caller, r)
  \/ \E caller \in Callers, amount \in PayAmounts : EscrowFund(caller, amount)
  \/ \E caller \in Callers, to \in {"supplier", "courier"}, amount \in PayAmounts :
       EscrowRelease(caller, to, amount)
  \/ \E caller \in Callers, amount \in PayAmounts : EscrowRefund(caller, "buyer", amount)

SpecEscrow == InitEscrow /\ [][EscrowNext]_vars

\* ------------------------------------- the status route, await by await

\* POST /api/me/orders/[orderId]/status up to its first write: the order is
\* read and the transition checked against the status read
StatusBegin(q, wallet, nextStatus) ==
  /\ statusReq[q].pc = "idle"
  /\ dbOrder # "None"
  /\ dbOrder # nextStatus
  /\ nextStatus \in allowedStatuses(dbOrder, wallet = "buyer", wallet = "supplier")
  /\ statusReq' = [statusReq EXCEPT ![q] = [pc |-> "update", next |-> nextStatus, found |-> FALSE]]
  /\ UNCHANGED <<chainVars, dbVars, req, settled, chainFailed, replayed, now, late, payRows,
                 verifyCall, orderRegistry, escrowCaller, allowance, fundFlow, resolved, reqVars>>

\* prisma.order.update({status: nextStatus}), unconditional
StatusUpdate(q) ==
  /\ statusReq[q].pc = "update"
  /\ dbOrder' = statusReq[q].next
  /\ statusReq' = [statusReq EXCEPT ![q] =
       IF statusReq[q].next = "Funded" THEN [@ EXCEPT !.pc = "find"] ELSE StatusIdle]
  /\ UNCHANGED <<chainVars, payment, dbShip, proofs, stock, sessions,
                 req, settled, chainFailed, replayed, now, late, payRows,
                 verifyCall, orderRegistry, escrowCaller, allowance, fundFlow, resolved, reqVars>>

\* prisma.payment.findFirst({orderId, payer, payee})
StatusFindPayment(q) ==
  /\ statusReq[q].pc = "find"
  /\ statusReq' = [statusReq EXCEPT ![q] = [@ EXCEPT !.pc = "write", !.found = payRows > 0]]
  /\ UNCHANGED <<chainVars, dbVars, req, settled, chainFailed, replayed, now, late, payRows,
                 verifyCall, orderRegistry, escrowCaller, allowance, fundFlow, resolved, reqVars>>

\* prisma.payment.update when a row was found, prisma.payment.create when
\* none was; the table has no unique index on (orderId, payer, payee)
StatusWritePayment(q) ==
  /\ statusReq[q].pc = "write"
  /\ payRows' = IF statusReq[q].found THEN payRows ELSE payRows + 1
  /\ payment' = "Escrowed"
  /\ statusReq' = [statusReq EXCEPT ![q] = StatusIdle]
  /\ UNCHANGED <<chainVars, dbOrder, dbShip, proofs, stock, sessions,
                 req, settled, chainFailed, replayed, now, late,
                 verifyCall, orderRegistry, escrowCaller, allowance, fundFlow, resolved, reqVars>>

\* concurrent status requests, shipments and drop settlements of one order
PaymentsNext ==
  \/ CreateOrderDb
  \/ \E q \in StatusReqs, wallet \in Addr, nextStatus \in OrderStatuses :
       StatusBegin(q, wallet, nextStatus)
  \/ \E q \in StatusReqs : StatusUpdate(q)
  \/ \E q \in StatusReqs : StatusFindPayment(q)
  \/ \E q \in StatusReqs : StatusWritePayment(q)
  \/ \E s \in Ships, c \in {"courier"} : CreateShipmentFresh(s, c)
  \/ \E s \in Ships, caller \in Addr : CourierDropDirect(s, caller)

SpecPayments == Init /\ [][PaymentsNext]_vars

\* ------------------------------------- the buyer's funding flow (client)

\* what the flow leaves behind when it ends or its catch runs
FlowEnd == [fundFlow EXCEPT !.pc = "idle"]

\* fundOrderEscrow(order), offered for an Approved order while no run is in
\* progress: readContract orders(chainOrderId)
FlowReadOrder ==
  /\ fundFlow.pc = "idle"
  /\ dbOrder = "Approved"
  /\ fundFlow.funds < MaxFlowFunds
  /\ fundFlow' = [fundFlow EXCEPT !.pc = "create",
                                  !.buyerSet = chOrder.status # "None",
                                  !.needMarkFunded = chOrder.status \in {"None", "Created"}]
  /\ UNCHANGED <<chainVars, dbVars, req, settled, chainFailed, replayed, now, late, payRows,
                 statusReq, verifyCall, orderRegistry, escrowCaller, allowance, resolved, reqVars>>

\* createOrder, sent only when the order read has no buyer; txOk = FALSE is
\* a rejected or failed transaction, which ends the run in the catch
FlowCreateOrder(txOk) ==
  /\ fundFlow.pc = "create"
  /\ IF fundFlow.buyerSet
       THEN /\ fundFlow' = [fundFlow EXCEPT !.pc = "allowance"]
            /\ UNCHANGED chOrder
       ELSE IF txOk /\ chOrder.status = "None"
         THEN /\ chOrder' = [status |-> "Created", amount |-> OrderAmount]
              /\ fundFlow' = [fundFlow EXCEPT !.pc = "allowance"]
         ELSE /\ fundFlow' = FlowEnd
              /\ UNCHANGED chOrder
  /\ UNCHANGED <<oracle, escrowed, paid, paidVia, reg, nPickup, nDrop, dropEvent,
                 dbVars, req, settled, chainFailed, replayed, now, late, payRows,
                 statusReq, verifyCall, orderRegistry, escrowCaller, allowance, resolved, reqVars>>

\* readContract allowance(buyer, escrow)
FlowReadAllowance ==
  /\ fundFlow.pc = "allowance"
  /\ fundFlow' = [fundFlow EXCEPT !.pc = "approve", !.needApprove = allowance < OrderAmount]
  /\ UNCHANGED <<chainVars, dbVars, req, settled, chainFailed, replayed, now, late, payRows,
                 statusReq, verifyCall, orderRegistry, escrowCaller, allowance, resolved, reqVars>>

\* approve(escrow, amount), sent only when the allowance read was too small
FlowApprove(txOk) ==
  /\ fundFlow.pc = "approve"
  /\ IF ~fundFlow.needApprove
       THEN /\ fundFlow' = [fundFlow EXCEPT !.pc = "fund"]
            /\ UNCHANGED allowance
       ELSE IF txOk
         THEN /\ allowance' = OrderAmount
              /\ fundFlow' = [fundFlow EXCEPT !.pc = "fund"]
         ELSE /\ fundFlow' = FlowEnd
              /\ UNCHANGED allowance
  /\ UNCHANGED <<chainVars, dbVars, req, settled, chainFailed, replayed, now, late, payRows,
                 statusReq, verifyCall, orderRegistry, escrowCaller, resolved, reqVars>>

\* escrow.fund(chainOrderId, amount), sent in every run: the token's
\* transferFrom spends the allowance
FlowFund(txOk) ==
  /\ fundFlow.pc = "fund"
  /\ IF txOk /\ orderRegistry # "none" /\ allowance >= OrderAmount
       THEN /\ escrowed' = escrowed + OrderAmount
            /\ allowance' = allowance - OrderAmount
            /\ funded' = funded + OrderAmount
            /\ fundFlow' = [fundFlow EXCEPT !.pc = "mark", !.funds = @ + 1]
       ELSE /\ fundFlow' = FlowEnd
            /\ UNCHANGED <<escrowed, allowance, funded>>
  /\ UNCHANGED <<oracle, chOrder, paid, paidVia, reg, nPickup, nDrop, dropEvent,
                 dbVars, req, settled, chainFailed, replayed, now, late, payRows,
                 statusReq, verifyCall, orderRegistry, escrowCaller, resolved,
                 assignReq, tokenCall, chainErr, geofence>>

\* markFunded, sent only when the status read at the start was below Funded
FlowMarkFunded(txOk) ==
  /\ fundFlow.pc = "mark"
  /\ IF ~fundFlow.needMarkFunded
       THEN /\ fundFlow' = [fundFlow EXCEPT !.pc = "status"]
            /\ UNCHANGED chOrder
       ELSE IF txOk /\ chOrder.status = "Created"
         THEN /\ chOrder' = [chOrder EXCEPT !.status = "Funded"]
              /\ fundFlow' = [fundFlow EXCEPT !.pc = "status"]
         ELSE /\ fundFlow' = FlowEnd
              /\ UNCHANGED chOrder
  /\ UNCHANGED <<oracle, escrowed, paid, paidVia, reg, nPickup, nDrop, dropEvent,
                 dbVars, req, settled, chainFailed, replayed, now, late, payRows,
                 statusReq, verifyCall, orderRegistry, escrowCaller, allowance, resolved, reqVars>>

\* handleOrderStatus(order.id, {status: "Funded"}): the status route as the
\* buyer; a failure of the request (srvOk = FALSE) is logged and swallowed
FlowOrderStatus(srvOk) ==
  /\ fundFlow.pc = "status"
  /\ fundFlow' = FlowEnd
  /\ IF srvOk /\ dbOrder # "Funded" /\ "Funded" \in allowedStatuses(dbOrder, TRUE, FALSE)
       THEN /\ dbOrder' = "Funded"
            /\ payment' = "Escrowed"
            /\ payRows' = IF payRows = 0 THEN 1 ELSE payRows
       ELSE UNCHANGED <<dbOrder, payment, payRows>>
  /\ UNCHANGED <<chainVars, dbShip, proofs, stock, sessions,
                 req, settled, chainFailed, replayed, now, late,
                 statusReq, verifyCall, orderRegistry, escrowCaller, allowance, resolved, reqVars>>

\* the order is raised and approved in the store, and the buyer runs the
\* funding flow as often as the page offers it
FundingNext ==
  \/ CreateOrderDb
  \/ \E wallet \in Addr, nextStatus \in OrderStatuses : SetOrderStatus(wallet, nextStatus)
  \/ FlowReadOrder
  \/ \E txOk \in BOOLEAN : FlowCreateOrder(txOk)
  \/ FlowReadAllowance
  \/ \E txOk \in BOOLEAN : FlowApprove(txOk)
  \/ \E txOk \in BOOLEAN : FlowFund(txOk)
  \/ \E txOk \in BOOLEAN : FlowMarkFunded(txOk)
  \/ \E srvOk \in BOOLEAN : FlowOrderStatus(srvOk)

SpecFunding == Init /\ [][FundingNext]_vars

\* ------------------------------------------- typed data of the sessions

\* GET /api/signing-sessions/[sessionId]?t=token answering 200: the typed
\* data returned to the counterparty, whatever else the request carries
ResolveTypedData(sid, body) ==
  /\ sessions[sid].link # "none"
  /\ ResolveCode(sid) = 200
  /\ resolved' = [resolved EXCEPT ![sid] = BuildTypedData(sid, body)]
  /\ UNCHANGED <<chainVars, dbVars, req, settled, chainFailed, replayed, now, late, payRows,
                 statusReq, verifyCall, orderRegistry, escrowCaller, allowance, fundFlow, reqVars>>

\* sessions of once-registered shipments, resolved and completed by requests
\* that carry any body
TypedNext ==
  \/ SetupNext
  \/ \E s \in Ships, c \in {"courier"} : CreateShipmentFresh(s, c)
  \/ \E sid \in SessIds, s \in Ships, kind \in Kinds, caller \in {"courier"},
        courierSig \in {"courier"}, linkOk \in {TRUE},
        distanceMeters \in {PlannedDistance} :
          CreateSession(sid, s, kind, caller, 0, 0, courierSig, linkOk, distanceMeters)
  \/ \E sid \in SessIds, body \in Bodies : ResolveTypedData(sid, body)
  \/ \E r \in Reqs, sid \in SessIds, sig \in {"supplier", "buyer", "other"}, body \in Bodies :
          CompleteBeginWith(r, sid, sig, body)
  \/ \E r \in Reqs, rpcOk \in BOOLEAN : CompleteChain(r, rpcOk)
  \/ \E r \in Reqs, dbOk \in BOOLEAN : CompleteMilestoneTx(r, dbOk)
  \/ \E r \in Reqs, dbOk \in BOOLEAN : CompleteFinalTx(r, dbOk)

SpecTyped == Init /\ [][TypedNext]_vars

\* ------------------------------------------- payouts of a funded order

\* the contracts called directly, the escrow being funded up to twice
PayoutNext ==
  \/ ChainCreateOrder
  \/ ChainFundWithin(MaxFundedTwice)
  \/ ChainMarkFunded
  \/ ChainMarkDisputed
  \/ \E releaseToSupplier \in BOOLEAN : ChainResolveDispute(releaseToSupplier)
  \/ \E o \in {"registry", "account"} : ChainSetOracle(o)
  \/ ChainReleaseEscrow
  \/ \E s \in Ships, c \in {"courier", "supplier"} : ChainRegisterShipment(s, c)
  \/ \E s \in Ships : ChainConfirmPickup(s)
  \/ \E s \in Ships, d \in 0..MaxDistance : ChainConfirmDrop(s, d)

SpecPayout == Init /\ [][PayoutNext]_vars

\* ------------------------------------------ courier assignment, by await

\* the wallets on the supplier's courier allowlist
Allowlisted == {"courier", "other"}

\* POST /api/me/shipments/[shipmentId]/assign by wallet with body.courier =
\* assignTo, up to the registry call: the supplier names an allowlisted
\* courier, an allowlisted courier claims a shipment that is free or its own
AssignBegin(a, s, wallet, assignTo) ==
  /\ assignReq[a].pc = "idle"
  /\ dbShip[s].status # "None"
  /\ LET isSupplier == wallet = "supplier"
         isCourier == dbShip[s].courier = wallet \/ dbShip[s].courier = "null"
         nextCourier == IF isSupplier THEN assignTo ELSE wallet
     IN /\ isSupplier \/ isCourier
        /\ nextCourier \in Allowlisted
        /\ dbShip[s].courier # nextCourier
        /\ assignReq' = [assignReq EXCEPT ![a] =
             [pc |-> "chain", ship |-> s, nextCourier |-> nextCourier]]
  /\ UNCHANGED <<chainVars, dbVars, req, settled, chainFailed, replayed, now, late, payRows,
                 statusReq, verifyCall, orderRegistry, escrowCaller, allowance, fundFlow, resolved,
                 tokenCall, chainErr, funded, geofence>>

\* a failure branch that would write the courier to the row all the same
AssignFailureWritesRow(a) ==
  /\ assignReq' = [assignReq EXCEPT ![a] = AssignIdle]
  /\ chainErr' = [route |-> "assign", ship |-> assignReq[a].ship, code |-> 502]
  /\ dbShip' = [dbShip EXCEPT ![assignReq[a].ship].courier = assignReq[a].nextCourier]
  /\ UNCHANGED <<reg, dbOrder>>

\* the catch around registry.updateCourier: 502, nothing written
AssignFailure(a) ==
  /\ assignReq' = [assignReq EXCEPT ![a] = AssignIdle]
  /\ chainErr' = [route |-> "assign", ship |-> assignReq[a].ship, code |-> 502]
  /\ UNCHANGED <<reg, dbShip, dbOrder>>

\* registry.updateCourier(registryShipmentId, nextCourier) and its receipt:
\* it fails at the RPC or reverts for an unregistered shipment
AssignChain(a, rpcOk) ==
  /\ assignReq[a].pc = "chain"
  /\ IF rpcOk /\ reg[assignReq[a].ship].orderId # 0
       THEN /\ reg' = [reg EXCEPT ![assignReq[a].ship].courier = assignReq[a].nextCourier]
            /\ assignReq' = [assignReq EXCEPT ![a].pc = "db"]
            /\ UNCHANGED <<dbShip, dbOrder, chainErr>>
       ELSE AssignFailure(a)
  /\ UNCHANGED <<oracle, chOrder, escrowed, paid, paidVia, nPickup, nDrop, dropEvent,
                 payment, proofs, stock, sessions,
                 req, settled, chainFailed, replayed, now, late, payRows,
                 statusReq, verifyCall, orderRegistry, escrowCaller, allowance, fundFlow, resolved,
                 tokenCall, funded, geofence>>

\* prisma.shipment.update({assignedCourier: nextCourier})
AssignDb(a) ==
  /\ assignReq[a].pc = "db"
  /\ dbShip' = [dbShip EXCEPT ![assignReq[a].ship].courier = assignReq[a].nextCourier]
  /\ assignReq' = [assignReq EXCEPT ![a] = AssignIdle]
  /\ UNCHANGED <<chainVars, dbOrder, payment, proofs, stock, sessions,
                 req, settled, chainFailed, replayed, now, late, payRows,
                 statusReq, verifyCall, orderRegistry, escrowCaller, allowance, fundFlow, resolved,
                 tokenCall, chainErr, funded, geofence>>

\* POST /api/me/shipments whose registerShipment transaction fails: the catch
\* answers 502 before any row is written
CreateShipmentChainFails(s, c) ==
  /\ dbOrder # "None"
  /\ chainErr' = [route |-> "create", ship |-> s, code |-> 502]
  /\ UNCHANGED <<chainVars, dbVars, req, settled, chainFailed, replayed, now, late, payRows,
                 statusReq, verifyCall, orderRegistry, escrowCaller, allowance, fundFlow, resolved,
                 assignReq, tokenCall, funded, geofence>>

\* shipments created (also under an id in use) and couriers assigned by
\* concurrent requests, any registry transaction failing
AssignNext ==
  \/ CreateOrderDb
  \/ \E s \in Ships, c \in {"null", "courier"} : CreateShipment(s, c)
  \/ \E s \in Ships, c \in {"null", "courier"} : CreateShipmentChainFails(s, c)
  \/ \E a \in AssignReqs, s \in Ships, wallet \in Addr, assignTo \in Allowlisted :
       AssignBegin(a, s, wallet, assignTo)
  \/ \E a \in AssignReqs, rpcOk \in BOOLEAN : AssignChain(a, rpcOk)
  \/ \E a \in AssignReqs : AssignDb(a)

SpecAssign == Init /\ [][AssignNext]_vars

\* ------------------------------------------------ tokens and sessions

\* the payloads a presented token may carry: the session it names and a role
Tokens == [sid : SessIds, role : {"supplier", "buyer"}]

\* createMagicLinkToken: the tokens that carry the server's HMAC are the ones
\* createSession minted, each naming its session and the counterparty role
\* of that session's kind
Minted(token) ==
  /\ sessions[token.sid].link # "none"
  /\ token.role = expectedRole(sessions[token.sid].kind)

\* verifyMagicLinkToken: the signature verifies and the token has not expired
VerifyToken(token) == Minted(token) /\ TokenLive(token.sid)

\* a check of the token against the session that would compare the role only
TokenMatchesRoleOnly(token, sid) == token.role = expectedRole(sessions[sid].kind)

\* payload.sid !== sessionId || payload.role !== expectedRole rejects
TokenMatches(token, sid) ==
  token.sid = sid /\ token.role = expectedRole(sessions[sid].kind)

\* the status the GET handler answers with when token is presented for
\* session sid (in its order: token, sid, session, role, status, link)
ResolveCodeFor(token, sid) ==
  IF ~VerifyToken(token) THEN 403
  ELSE IF token.sid # sid THEN 403
  ELSE IF sessions[sid].status = "Free" THEN 404
  ELSE IF ~TokenMatches(token, sid) THEN 403
  ELSE IF sessions[sid].status # expectedStatus(sessions[sid].kind) THEN 409
  ELSE IF sessions[token.sid].link = "used" THEN 409
  ELSE 200

\* the status the POST handler answers with before its chain call, 0 when
\* every check passes (token, session, sid and role, the token's link,
\* status, signature)
CompleteCodeFor(token, sid, sig) ==
  IF ~VerifyToken(token) THEN 403
  ELSE IF sessions[sid].status = "Free" THEN 404
  ELSE IF ~TokenMatches(token, sid) THEN 403
  ELSE IF sessions[token.sid].link = "used" THEN 409
  ELSE IF sessions[sid].status # expectedStatus(sessions[sid].kind) THEN 409
  ELSE IF ~RecheckRadius(sid) THEN 403
  ELSE IF sig # sessions[sid].counterparty THEN 400
  ELSE 0

\* a resolveSession (op = "resolve") or completeSession (op = "complete") call
\* for session sid that presents a token other than the one minted for sid
PresentToken(op, token, sid, sig) ==
  /\ ~(token.sid = sid /\ Minted(token))
  /\ tokenCall' = [op |-> op, token |-> token, sid |-> sid, sig |-> sig,
                   code |-> IF op = "resolve" THEN ResolveCodeFor(token, sid)
                            ELSE CompleteCodeFor(token, sid, sig)]
  /\ UNCHANGED <<chainVars, dbVars, req, settled, chainFailed, replayed, now, late, payRows,
                 statusReq, verifyCall, orderRegistry, escrowCaller, allowance, fundFlow, resolved,
                 assignReq, chainErr, funded, geofence>>

\* sessions of once-registered shipments, completed with their own tokens,
\* while calls present the tokens of other sessions and roles
TokensNext ==
  \/ SetupNext
  \/ \E s \in Ships, c \in {"courier"} : CreateShipmentFresh(s, c)
  \/ \E sid \in SessIds, s \in Ships, kind \in Kinds, caller \in {"courier"},
        courierSig \in {"courier"}, linkOk \in BOOLEAN,
        distanceMeters \in {PlannedDistance} :
          CreateSession(sid, s, kind, caller, 0, 0, courierSig, linkOk, distanceMeters)
  \/ \E op \in {"resolve", "complete"}, token \in Tokens, sid \in SessIds,
        sig \in {"supplier", "buyer"} : PresentToken(op, token, sid, sig)
  \/ \E r \in Reqs, sid \in SessIds, sig \in {"supplier", "buyer"} :
          CompleteBegin(r, sid, sig)
  \/ \E r \in Reqs, rpcOk \in {TRUE} : CompleteChain(r, rpcOk)
  \/ \E r \in Reqs, dbOk \in {TRUE} : CompleteMilestoneTx(r, dbOk)
  \/ \E r \in Reqs, dbOk \in {TRUE} : CompleteFinalTx(r, dbOk)

SpecTokens == Init /\ [][TokensNext]_vars

\* ---- the payload a signing session stores ----

\* the shipmentHash values a client can send: the registry id of the
\* shipment, or the registry id of some other shipment id
ShipmentHashes == {DeriveShipmentRegistryId(s) : s \in 1..(MaxShip + 1)}

\* the claimedTs values a client can send: any finite number
ClaimedTimestamps == {-1, 0, ClaimTs}

PayloadNext ==
  \/ CreateOrderDb
  \/ \E s \in Ships, c \in {"null", "courier"} : CreateShipmentFresh(s, c)
  \/ \E sid \in SessIds, s \in Ships, kind \in Kinds, caller \in Addr,
        courierSig \in Addr, linkOk \in BOOLEAN,
        shipmentHash \in ShipmentHashes, claimedTs \in ClaimedTimestamps :
          CreateSessionWith(sid, s, kind, caller, 0, 0, courierSig, linkOk,
                            PlannedDistance, shipmentHash, claimedTs)
  \/ \E r \in Reqs, sid \in SessIds, sig \in {"supplier", "buyer", "other"} :
          CompleteBegin(r, sid, sig)
  \/ \E r \in Reqs, rpcOk \in BOOLEAN : CompleteChain(r, rpcOk)
  \/ \E r \in Reqs, dbOk \in BOOLEAN : CompleteMilestoneTx(r, dbOk)
  \/ \E r \in Reqs, dbOk \in BOOLEAN : CompleteFinalTx(r, dbOk)

SpecPayload == Init /\ [][PayloadNext]_vars

\* ================================================================== claims

\* some shipment of the order has had both attestations recorded
BothAttested ==
  \E s \in Ships : reg[s].orderId = ChainOrderId /\ nPickup[s] >= 1 /\ nDrop[s] >= 1

CompletedSessions(s, kind) ==
  {k \in SessIds : sessions[k].ship = s /\ sessions[k].kind = kind
                     /\ sessions[k].status = "COMPLETED"}

C3_AsStated ==
  \A s \in Ships :
    /\ dbShip[s].status = "InTransit" => nPickup[s] = 1
    /\ dbShip[s].status = "Delivered" => nDrop[s] = 1

\* C4: when the confirmPickup / confirmDrop call of a completeSession request
\* fails (RPC error or revert), the request ends in an error and that step
\* changes no relational state (order, payment, shipment, proofs, inventory,
\* session status, magic link) and no chain state.
C4_ChainFailureChangesNothing ==
  [][\A r \in Reqs :
       (req[r].pc = "chain" /\ req'[r].pc # "chain" /\ req'[r].pc # "dbtx")
         => /\ req'[r] = Idle
            /\ chainFailed'[req[r].sid]
            /\ UNCHANGED <<dbOrder, payment, dbShip, proofs, stock, sessions>>
            /\ UNCHANGED chainVars]_vars

\* C4 witness: a session whose confirmation failed on-chain is still pending
\* with its link unused, and its shipment is where it was
C4_Witness ==
  \E k \in SessIds :
    /\ chainFailed[k]
    /\ sessions[k].kind = "pickup"
    /\ sessions[k].status = "PENDING_SUPPLIER"
    /\ sessions[k].link = "unused"
    /\ dbShip[sessions[k].ship].status = "Created"
    /\ proofs[sessions[k].ship].pickupCountersign = 0
    /\ \A r \in Reqs : req[r].pc = "idle"

\* C5: a magic link is used exactly when its session is COMPLETED: usedAt and
\* the COMPLETED status are written by one transaction.
C5_UsedLinkIsCompleted ==
  \A k \in SessIds :
    sessions[k].link = "used" <=> sessions[k].status = "COMPLETED"

\* C5 witness: a session completed and its link is used
C5_Witness ==
  \E k \in SessIds : sessions[k].link = "used" /\ sessions[k].status = "COMPLETED"

\* C6 as stated: of the completeSession requests that run concurrently with
\* the same token, one performs the settlement and every other fails without
\* one, so no two of them are both past their milestone transaction.
C6_AsStated ==
  \A r1 \in Reqs, r2 \in Reqs :
    (r1 # r2 /\ req[r1].pc = "final" /\ req[r2].pc = "final")
      => req[r1].sid # req[r2].sid

\* C7 as stated: a call that presents the token of a completed session is
\* answered 409.
C7_AsStated == \A k \in SessIds : replayed[k] \in {0, 409}

\* C7 amended: a resolveSession or completeSession call that presents the
\* token of a completed session is answered 409 while the token has not
\* expired and 403 once it has; either way the call changes no chain state,
\* no row and no request, and no request for a completed session reaches
\* the chain call.
C7_ReplayRejected ==
  [][/\ \A k \in SessIds :
          replayed'[k] # replayed[k]
            => /\ Completed(k)
               /\ replayed'[k] = IF TokenLive(k) THEN 409 ELSE 403
               /\ UNCHANGED <<chainVars, dbVars, req, settled, chainFailed>>
     /\ \A r \in Reqs :
          (req[r].pc = "idle" /\ req'[r].pc = "chain") => ~Completed(req'[r].sid)]_vars

\* C7 witness: a replay of a completed session's live token was answered 409
C7_Witness == \E k \in SessIds : replayed[k] = 409 /\ Completed(k) /\ TokenLive(k)

\* C8 as stated: the milestone's relational effects and the session's
\* completion commit together, so a session whose milestone transaction has
\* committed is COMPLETED and its magic link is used.
C8_AsStated == \A k \in SessIds : settled[k] # "no" => Completed(k)

\* C9 as stated: once a confirmation is recorded on-chain and the store has
\* not followed (the commit after the chain call failed), a later request
\* eventually brings the shipment's status in the store to the chain's.
C9_AsStated ==
  \A s \in Ships :
    /\ (nPickup[s] >= 1 /\ dbShip[s].status = "Created")
          ~> (dbShip[s].status \in {"InTransit", "Delivered"})
    /\ (nDrop[s] >= 1 /\ dbShip[s].status = "InTransit")
          ~> (dbShip[s].status = "Delivered")

\* the status a milestone of the given kind settles a shipment and its order to
SettledShipment(kind) == IF kind = "drop" THEN "Delivered" ELSE "InTransit"
SettledOrder(kind) == IF kind = "drop" THEN "Delivered" ELSE "Shipped"

\* C10: a completeSession request submitted again after an attempt of the
\* same session failed at its chain call, and accepted (deadline not passed,
\* same signature), completes end-to-end when its chain call and commits
\* succeed: the chain call emits the event, the milestone transaction sets
\* shipment and order to the settled status, and the last transaction makes
\* the session COMPLETED and the link used.
C10_RetryCompletes ==
  [][\A r \in Reqs :
       req[r].retry =>
         LET k == req[r].sid
             s == sessions[k].ship
             kind == sessions[k].kind
         IN /\ chainFailed[k]
            /\ (req[r].pc = "chain" /\ req'[r].pc = "dbtx")
                 => IF kind = "drop" THEN nDrop'[s] = nDrop[s] + 1
                                     ELSE nPickup'[s] = nPickup[s] + 1
            /\ (req[r].pc = "dbtx" /\ req'[r].pc = "final")
                 => /\ dbShip'[s].status = SettledShipment(kind)
                    /\ dbOrder' = SettledOrder(kind)
                    /\ settled'[k] = "retry"
            /\ (req[r].pc = "final" /\ req'[r].pc = "idle" /\ sessions' # sessions)
                 => /\ sessions'[k].status = "COMPLETED"
                    /\ sessions'[k].link = "used"]_vars

\* C10 witness: a session whose chain call had failed was settled by a later
\* submission and is COMPLETED, its link used, shipment and order settled
C10_Witness ==
  \E k \in SessIds :
    /\ chainFailed[k]
    /\ settled[k] = "retry"
    /\ Completed(k)
    /\ sessions[k].kind = "drop"
    /\ dbShip[sessions[k].ship].status = "Delivered"
    /\ dbOrder = "Delivered"
    /\ nDrop[sessions[k].ship] = 1

\* the sessions of shipment s and of the given kind that are in a PENDING_* status
PendingSessions(s, kind) ==
  {k \in SessIds : sessions[k].ship = s /\ sessions[k].kind = kind
                     /\ sessions[k].status = expectedStatus(kind)}

\* C11 as stated: at any time at most one session of a shipment and kind is
\* in a PENDING_* status, because createSession refuses a second one.
C11_AsStated ==
  \A s \in Ships, kind \in Kinds : Cardinality(PendingSessions(s, kind)) <= 1

\* sessions that were created together with their link
Issued == {k \in SessIds : sessions[k].status # "Free" /\ sessions[k].link # "none"}

\* a call for session k would pass every check but the expiry checks
Presentable(k) ==
  /\ sessions[k].status = expectedStatus(sessions[k].kind)
  /\ sessions[k].link = "unused"

\* C12: a resolveSession or completeSession call that arrives after the
\* session's deadline is answered 403 (link expired) and changes neither the
\* session, the link, the shipment nor the chain; a token presented one second
\* before the deadline is accepted and one presented one second after it is
\* rejected.
C12_LateCallRejected ==
  /\ [][\A k \in SessIds :
          late'[k] # late[k] =>
            /\ late'[k] = 403
            /\ UNCHANGED <<chainVars, dbVars, req, settled, chainFailed>>]_vars
  /\ [](\A k \in SessIds : late[k] \in {0, 403})
  /\ [](\A k \in Issued :
          Presentable(k) /\ now + TicksPerSecond <= sessions[k].deadline =>
            /\ ResolveCode(k) = 200
            /\ CompleteCode(k, sessions[k].counterparty) = 0)
  /\ [](\A k \in Issued :
          now >= sessions[k].deadline + TicksPerSecond =>
            /\ ResolveCode(k) = 403
            /\ CompleteCode(k, sessions[k].counterparty) = 403)

\* a call made a second or more after the deadline of a pending session with
\* an unused link was answered 403
C12_Witness ==
  \E k \in Issued :
    /\ Presentable(k)
    /\ now >= sessions[k].deadline + TicksPerSecond
    /\ late[k] = 403

\* C13: every session that is still pending when its deadline passes is
\* eventually set to EXPIRED and its magic link invalidated.
C13_AsStated ==
  \A k \in SessIds :
    (sessions[k].status \in {"PENDING_SUPPLIER", "PENDING_BUYER"}
       /\ now > sessions[k].deadline)
      ~> (sessions[k].status = "EXPIRED" /\ sessions[k].link = "invalid")

\* C14: in every reachable state, also after a createSession that failed
\* part-way, every SigningSession row has its MagicLink row.
C14_AsStated ==
  \A k \in SessIds : sessions[k].status # "Free" => sessions[k].link # "none"

\* the pickup settlement of shipment s has completed: the registry emitted
\* PickupApproved and the countersigned pickup proof is stored
PickupSettled(s) == nPickup[s] > 0 /\ proofs[s].pickupCountersign > 0

\* C15: a drop session is created only for a shipment whose status is
\* InTransit or Delivered, and no shipment has a drop settlement (a
\* DropApproved event on-chain, status Delivered in the store) before its
\* pickup settlement has completed.
C15_AsStated ==
  /\ [][\A k \in SessIds :
          sessions[k].status = "Free" /\ sessions'[k].kind = "drop" =>
            dbShip[sessions'[k].ship].status \in {"InTransit", "Delivered"}]_vars
  /\ [](\A s \in Ships :
          nDrop[s] > 0 \/ dbShip[s].status = "Delivered" => PickupSettled(s))

\* the moves of Shipment.status the lifecycle allows
ShipmentMoves ==
  {<<"None", "Created">>, <<"Created", "InTransit">>,
   <<"InTransit", "Delivered">>, <<"Created", "Cancelled">>}

\* C16: the status of a shipment only moves Created -> InTransit -> Delivered
\* or Created -> Cancelled; no step moves it backwards or past InTransit, and
\* the pickup settlement is applied only to a shipment that is Created.
C16_AsStated ==
  [][\A s \in Ships :
       /\ dbShip'[s].status # dbShip[s].status =>
            <<dbShip[s].status, dbShip'[s].status>> \in ShipmentMoves
       /\ proofs'[s].pickupCountersign # proofs[s].pickupCountersign =>
            dbShip[s].status = "Created"]_vars

\* the place of an order status in the lifecycle
OrderRank(st) ==
  CASE st = "None" -> 0
    [] st = "Created" -> 1
    [] st = "Approved" -> 2
    [] st = "Funded" -> 3
    [] st = "InFulfillment" -> 4
    [] st = "Shipped" -> 5
    [] st = "Delivered" -> 6
    [] st = "Disputed" -> 7
    [] st = "Resolved" -> 8
    [] st = "Cancelled" -> 9

\* C17: no step (order status route, shipment creation, pickup settlement,
\* drop settlement) moves the order back to a status it has already passed,
\* except between Disputed and Resolved.
C17_AsStated ==
  [][\/ OrderRank(dbOrder') >= OrderRank(dbOrder)
     \/ <<dbOrder, dbOrder'>> = <<"Resolved", "Disputed">>]_vars

\* a drop session whose confirmation the registry would accept but for the
\* size of the reward: its shipment is registered, picked up and not yet
\* delivered, the order is funded and the escrow holds its amount
DropReady(k) ==
  /\ sessions[k].kind = "drop"
  /\ Presentable(k)
  /\ sessions[k].distanceMeters >= 0
  /\ reg[sessions[k].ship].orderId = ChainOrderId
  /\ reg[sessions[k].ship].pickupSigned
  /\ ~reg[sessions[k].ship].delivered
  /\ chOrder.status = "Funded"
  /\ chOrder.amount > 0
  /\ escrowed >= chOrder.amount

NearPlanned(d) ==
  /\ d >= PlannedDistance - DistanceTolerance
  /\ d <= PlannedDistance + DistanceTolerance

DropSettled == \E s \in Ships : nDrop[s] > 0 /\ proofs[s].dropCountersign > 0

\* C20: the buyer's stock of the order's line item has been incremented by
\* its quantity exactly once if the drop settled and not at all otherwise,
\* whatever completions failed, were retried or were replayed.
C20_AsStated ==
  stock = IF DropSettled THEN ItemQty ELSE 0

AtChainCall == {r \in Reqs : req[r].pc = "chain"}

\* C22: at no time are two transactions of the oracle signer in flight: at
\* most one request is at its chain call.
C22_AsStated == Cardinality(AtChainCall) <= 1

\* C23: a shipment comes into being (its row in the store, its entry in the
\* registry) only from a funded order.  (Its creator is the order's
\* supplier by the route's own lookup: CreateShipment is that request.)
C23_AsStated ==
  [][\A s \in Ships :
       \/ dbShip[s].status = "None" /\ dbShip'[s].status # "None"
       \/ reg[s].orderId = 0 /\ reg'[s].orderId # 0
       => dbOrder = "Funded" \/ chOrder.status = "Funded"]_vars

\* C24: the verifier answers valid whenever ECDSA recovery fails or gives an
\* address other than expectedSigner, expectedSigner is a contract, and its
\* isValidSignature returns the magic value.
C24_AsStated ==
  /\ verifyCall.valid \in {"true", "false"}
  /\ verifyCall.recovered # verifyCall.expectedSigner
  /\ verifyCall.hasCode
  /\ verifyCall.result = "magic"
  => verifyCall.valid = "true"

\* C25: tokens leave the escrow only in calls made by the order registry:
\* whatever the callers do, the sender of a call that moved tokens out is the
\* OrderRegistry contract.
C25_AsStated == escrowCaller \in {"none", "registry"}

\* C26: there is at most one Payment row for the order's (orderId, payer,
\* payee), whatever the interleaving of status requests and drop settlements.
C26_AsStated == payRows <= 1

\* C27: re-running the order-funding flow after a partial or complete earlier
\* run repeats no on-chain effect: over all its runs the flow funds the
\* escrow at most once, and the escrow holds no more than the order's amount.
C27_AsStated == fundFlow.funds <= 1 /\ escrowed <= OrderAmount

\* the message the stored session stands for
StoredMessage(sid) ==
  [shipmentId |-> sessions[sid].ship, courier |-> sessions[sid].courier,
   counterparty |-> sessions[sid].counterparty,
   distanceMeters |-> sessions[sid].distanceMeters]

\* C28: the typed data resolveSession returns and completeSession verifies
\* and submits is the stored session's message, whatever the request
\* carries besides the signature; the distance that reaches the registry is
\* the stored one.
C28_TypedDataFromSessionOnly ==
  /\ \A k \in SessIds : resolved[k] # NoMsg => resolved[k] = StoredMessage(k)
  /\ \A r \in Reqs : req[r].pc # "idle" => req[r].msg = StoredMessage(req[r].sid)
  /\ nDrop[1] > 0 =>
       \E k \in SessIds : /\ sessions[k].kind = "drop"
                           /\ dropEvent.distanceMeters = sessions[k].distanceMeters

\* a drop session was resolved, and completed up to its settlement by a
\* request whose body named another courier and another distance
C28_Witness ==
  \E r \in Reqs :
    /\ req[r].pc = "dbtx"
    /\ req[r].body # NoBody
    /\ sessions[req[r].sid].kind = "drop"
    /\ req[r].body.distanceMeters # sessions[req[r].sid].distanceMeters
    /\ resolved[req[r].sid] # NoMsg
    /\ nDrop[1] > 0

\* C29: the order is paid out at most once: the total transferred out of the
\* escrow for it never exceeds the amount it was created with.
C29_AsStated == paid.supplier + paid.courier + paid.buyer <= OrderAmount

\* C30: whenever the on-chain order is Funded, the escrow holds at least the
\* order's amount.
C30_AsStated == chOrder.status = "Funded" => escrowed >= chOrder.amount

\* no assignment request is in flight
AssignQuiet == \A a \in AssignReqs : assignReq[a].pc = "idle"

\* C31: after any interleaving of shipment-creation and courier-assignment
\* requests, every shipment whose row names a courier has that courier
\* registered in ShipmentRegistry.
C31_AsStated ==
  AssignQuiet =>
    \A s \in Ships : dbShip[s].courier # "null" => reg[s].courier = dbShip[s].courier

\* C36: a shipment-creation or courier-assignment request whose registry
\* transaction fails answers 502 and writes nothing: no shipment row appears
\* and no row's courier or the order's status changes in the step that ends
\* the request.
C36_ChainFailureWritesNothing ==
  [][(\/ chainErr' # chainErr
      \/ \E a \in AssignReqs : assignReq[a].pc = "chain" /\ assignReq'[a].pc = "idle")
     => /\ chainErr'.code = 502
        /\ dbShip' = dbShip
        /\ dbOrder' = dbOrder]_vars

\* an assignment of a stored, registered shipment ended on a failed
\* updateCourier while the row and the registry still name no such courier
C36_Witness ==
  /\ chainErr.route = "assign"
  /\ chainErr.code = 502
  /\ dbShip[chainErr.ship].status # "None"
  /\ reg[chainErr.ship].orderId # 0
  /\ dbShip[chainErr.ship].courier = "null"
  /\ AssignQuiet

\* C32: a token authorises only the session named by its sid, in the
\* counterparty role of that session's kind: every resolveSession or
\* completeSession call for a session that presents another session's token,
\* or a token of the other role, is rejected.
C32_ForeignTokenRejected ==
  tokenCall.op # "none" => tokenCall.code \in {403, 404}

\* the live token of a pickup session A was presented, with the supplier's
\* signature, to completeSession of another pending pickup session B whose
\* own link is unused, and was refused
C32_Witness ==
  /\ tokenCall.op = "complete"
  /\ tokenCall.token.sid # tokenCall.sid
  /\ VerifyToken(tokenCall.token)
  /\ sessions[tokenCall.token.sid].link = "unused"
  /\ sessions[tokenCall.sid].kind = sessions[tokenCall.token.sid].kind
  /\ sessions[tokenCall.sid].status = expectedStatus(sessions[tokenCall.sid].kind)
  /\ sessions[tokenCall.sid].link = "unused"
  /\ tokenCall.sig = sessions[tokenCall.sid].counterparty
  /\ tokenCall.code = 403

\* C33: on-chain milestones are monotonic: once a shipment's pickup is
\* confirmed or the shipment is marked delivered, no later call returns it to
\* an unconfirmed state.
C33_AsStated ==
  [][\A s \in Ships :
       /\ reg[s].pickupSigned => reg'[s].pickupSigned
       /\ reg[s].delivered => reg'[s].delivered]_vars

\* C34: every stored signing session carries, as payload.shipmentHash, the
\* registry id derived from its shipment's id.
C34_AsStated ==
  \A sid \in SessIds :
    sessions[sid].status # "Free" =>
      sessions[sid].shipmentHash = DeriveShipmentRegistryId(sessions[sid].ship)

\* C37: a claimedTs of zero is refused: no signing session is stored with
\* claimedTs = 0.
C37_AsStated ==
  \A sid \in SessIds :
    sessions[sid].status # "Free" => sessions[sid].claimedTs # 0

\* C35: the escrow's accounting: escrowed[orderId] is always the total funded
\* minus the total released and refunded, it never goes below zero, and the
\* payouts never exceed what was funded.
C35_EscrowAccounting ==
  /\ escrowed = funded - (paid.supplier + paid.courier + paid.buyer)
  /\ escrowed >= 0
  /\ paid.supplier + paid.courier + paid.buyer <= funded

\* a funded escrow after a release and a refund, with a balance left
C35_Witness ==
  /\ funded > 0
  /\ paid.supplier + paid.courier > 0
  /\ paid.buyer > 0
  /\ escrowed > 0

\* C38: COMPLETED is terminal: a session whose status is COMPLETED keeps that
\* status in every later step, every resolveSession or completeSession call
\* made for it afterwards is answered with an error, and no such call starts
\* a request.
C38_CompletedIsTerminal ==
  [][\A sid \in SessIds :
       sessions[sid].status = "COMPLETED" =>
         /\ sessions'[sid].status = "COMPLETED"
         /\ replayed'[sid] \in {0, 400, 403, 409}
         /\ \A r \in Reqs :
              (req[r].pc = "idle" /\ req'[r].pc # "idle") => req'[r].sid # sid]_vars

\* a completed session for which a later call was refused, with no request
\* left in flight
C38_Witness ==
  /\ \E k \in SessIds : sessions[k].status = "COMPLETED" /\ replayed[k] \in {403, 409}
  /\ \A r \in Reqs : req[r].pc = "idle"

\* C39: the geofence passes exactly when the distance is at most the radius:
\* a courier at the radius passes and one a metre beyond it is refused, in
\* createSession and in completeSession's re-check alike.
C39_GeofenceBoundary ==
  /\ \A d \in EdgeDistances, r \in EdgeRadii :
       /\ WithinRadius(d, ResolveRadius(r)) <=> d <= ResolveRadius(r)
       /\ WithinRadius(d, ResolveRadius(r)) <=> IsWithinRadius(d, ResolveRadius(r))
  /\ \A k \in SessIds :
       sessions[k].status # "Free" =>
         /\ sessions[k].targetDistance <= sessions[k].radiusM
         /\ RecheckRadius(k) <=> sessions[k].targetDistance <= sessions[k].radiusM
  /\ geofence.code = 400 => geofence.distance > geofence.radius
  /\ \A r \in Reqs :
       req[r].pc # "idle" =>
         sessions[req[r].sid].targetDistance <= sessions[req[r].sid].radiusM

\* a courier exactly at the default radius got a session that passed
\* completeSession's re-check, and a courier one metre beyond it was refused
C39_Witness ==
  /\ \E r \in Reqs :
       /\ req[r].pc # "idle"
       /\ sessions[req[r].sid].targetDistance = DEFAULT_RADIUS_METERS
       /\ sessions[req[r].sid].radiusM = DEFAULT_RADIUS_METERS
  /\ geofence.code = 400
  /\ geofence.radius = DEFAULT_RADIUS_METERS
  /\ geofence.distance = DEFAULT_RADIUS_METERS + 1

====
